---- MODULE Spec2Model ----
(***************************************************************************)
(* A model of NetworkManager's IPv4 configuration aggregate (NMIP4Config)  *)
(* and of the reconciliation operations over it: capture, merge, subtract, *)
(* replace, hash and equal.                                                *)
(*                                                                         *)
(* Two aggregates, cfg[1] and cfg[2], are built through the public API.    *)
(* Every action is one public call, run to completion (the program is      *)
(* single-threaded and no call suspends).  `last` records what the last    *)
(* call was, its argument and what it reported; `steps` counts calls;      *)
(* `track` follows a merge that is directly followed by a subtract.        *)
(* `plat` is the platform layer: the kernel's objects, the layer's view of *)
(* them, the kernel notifications not yet read, and what has been shown to *)
(* the callers.                                                            *)
(*                                                                         *)
(* Values.  A 32-bit value is held as the int of the same 32 bits: a       *)
(* guint32 below 2^31 is that natural number, 0xFFFFFFFF is -1.  A C       *)
(* string is the sequence of its bytes; the NULL pointer is NULL below.    *)
(* An array is a sequence; the code's indices are 0-based and are shifted  *)
(* by one where they are used.                                             *)
(***************************************************************************)
EXTENDS Integers, Sequences, FiniteSets, TLC

VARIABLES cfg, last, steps, track, plat

vars == <<cfg, last, steps, track, plat>>

(***************************************************************************)
(* Declarations that live outside the files at hand (nm-platform.h of the  *)
(* modelled revision, nm-platform.c): the source-priority enumeration, the *)
(* permanent lifetime, the record comparisons.  They follow the            *)
(* specification's data model.                                             *)
(***************************************************************************)
NM_IP_CONFIG_SOURCE_UNKNOWN == 0
NM_IP_CONFIG_SOURCE_KERNEL == 1
NM_IP_CONFIG_SOURCE_USER == 4

\* The largest guint32, 0xFFFFFFFF, as the int of the same 32 bits.
G_MAXUINT32 == -1

\* a < b where both operands are converted to guint32, as C's usual
\* arithmetic conversions do when one of them is a guint32.
guint32_lt(a, b) == IF (a < 0) = (b < 0) THEN a < b ELSE b < 0

NM_PLATFORM_LIFETIME_PERMANENT == G_MAXUINT32

\* A gint64 is held as its upper and its lower 32 bits, each the int of the
\* same bits: -1, and a guint32 converted to gint64.
gint64_minus_one == [hi |-> -1, lo |-> -1]

gint64_from_guint32(x) == [hi |-> 0, lo |-> x]

\* The size of an interface name and of an address label, the closing NUL
\* included.
IFNAMSIZ == 16

\* The NULL char pointer.  No C string holds a NUL byte, so no string is <<0>>.
NULL == <<0>>

MAX(a, b) == IF a > b THEN a ELSE b

\* A route with prefix length 0 is a default route.
NM_PLATFORM_IP_ROUTE_IS_DEFAULT(route) == route.plen = 0

\* 0 if and only if the two address records agree in every field.
nm_platform_ip4_address_cmp(a, b) == IF a = b THEN 0 ELSE 1

\* 0 if and only if the two route records agree in every field.
nm_platform_ip4_route_cmp(a, b) == IF a = b THEN 0 ELSE 1

\* nm_platform_ip_address_cmp_expiry compared by the lifetimes alone, the
\* timestamps left out.
cmp_expiry_by_lifetime_alone(a, b) ==
    IF a.lifetime = b.lifetime THEN 0
    ELSE IF a.lifetime = NM_PLATFORM_LIFETIME_PERMANENT THEN 1
    ELSE IF b.lifetime = NM_PLATFORM_LIFETIME_PERMANENT THEN -1
    ELSE IF a.lifetime < b.lifetime THEN -1 ELSE 1

\* 1 if a's computed expiry is strictly later than b's, -1 if strictly
\* earlier, 0 if the two are the same.  The computed expiry is the instant
\* timestamp + lifetime; a permanent lifetime never expires.
nm_platform_ip_address_cmp_expiry(a, b) ==
    IF /\ a.lifetime = NM_PLATFORM_LIFETIME_PERMANENT
       /\ b.lifetime = NM_PLATFORM_LIFETIME_PERMANENT
    THEN 0
    ELSE IF a.lifetime = NM_PLATFORM_LIFETIME_PERMANENT THEN 1
    ELSE IF b.lifetime = NM_PLATFORM_LIFETIME_PERMANENT THEN -1
    ELSE IF a.timestamp + a.lifetime = b.timestamp + b.lifetime THEN 0
    ELSE IF a.timestamp + a.lifetime < b.timestamp + b.lifetime THEN -1
    ELSE 1

(***************************************************************************)
(* Arrays.                                                                 *)
(***************************************************************************)
\* g_array_remove_index (array, i), i 0-based.
g_array_remove_index(array, i) ==
    [k \in 1..(Len(array) - 1) |-> IF k <= i THEN array[k] ELSE array[k + 1]]

\* The 0-based index of the first element equal to v, or Len(array).
IndexOfValue(array, v) ==
    IF \E k \in 1..Len(array) : array[k] = v
    THEN (CHOOSE k \in 1..Len(array) :
              array[k] = v /\ \A j \in 1..(k - 1) : array[j] # v) - 1
    ELSE Len(array)

Range(array) == {array[k] : k \in 1..Len(array)}

(***************************************************************************)
(* The aggregate: NMIP4ConfigPrivate, and `notified`, the set of property  *)
(* notifications emitted since the current public call began.              *)
(***************************************************************************)
nm_ip4_config_init ==
    [never_default |-> FALSE,
     gateway       |-> 0,
     addresses     |-> <<>>,
     routes        |-> <<>>,
     nameservers   |-> <<>>,
     domains       |-> <<>>,
     searches      |-> <<>>,
     mss           |-> 0,
     nis           |-> <<>>,
     nis_domain    |-> NULL,
     wins          |-> <<>>,
     mtu           |-> 0,
     mtu_source    |-> NM_IP_CONFIG_SOURCE_UNKNOWN,
     notified      |-> {}]

\* _NOTIFY (config, prop) for each prop of props.
NOTIFY(config, props) == [config EXCEPT !.notified = @ \cup props]

\* Byte k (0..3) of a 32-bit value, the lowest first: on a little-endian
\* host, octet k of an in_addr_t as it lies in memory.
Byte(x, k) == (x \div (256 ^ k)) % 256

\* ntohl (address) >> (32 - plen) on a little-endian host, for plen in
\* 1..32.  ntohl (address) is Byte 0 * 2^24 + low24; for plen = 32 it is
\* given as the int of the same 32 bits.
same_prefix_shift(address, plen) ==
    LET low24 == (Byte(address, 1) * 256 + Byte(address, 2)) * 256
                     + Byte(address, 3)
    IN  IF plen = 32
        THEN (IF Byte(address, 0) >= 128
              THEN (Byte(address, 0) - 256) * 16777216 + low24
              ELSE Byte(address, 0) * 16777216 + low24)
        ELSE (Byte(address, 0) * 8388608 + (low24 \div 2))
                 \div (2 ^ (31 - plen))

\* What a build makes of x >> 32 on a 32-bit x, which is undefined:
\* "operand" when the count is taken modulo 32 and x comes out as it went
\* in (x86), "zero" when every bit is shifted out.
Shift32Outcomes == {"operand", "zero"}

\* With plen = 0 both shifts are by the width of the operand, and each
\* value compared is what shift32 makes of it: ntohl (address) as it is,
\* or 0.
same_prefix(address1, address2, plen, shift32) ==
    IF plen = 0
    THEN \/ shift32 = "zero"
         \/ same_prefix_shift(address1, 32) = same_prefix_shift(address2, 32)
    ELSE same_prefix_shift(address1, plen) = same_prefix_shift(address2, plen)

addresses_are_duplicate(a, b, consider_plen) ==
    a.address = b.address /\ (~consider_plen \/ a.plen = b.plen)

\* routes_are_duplicate comparing the gateway and the metric whatever the
\* flag says.
routes_are_duplicate_full(a, b, consider_gateway_and_metric) ==
    /\ a.network = b.network
    /\ a.plen = b.plen
    /\ a.gateway = b.gateway
    /\ a.metric = b.metric

routes_are_duplicate(a, b, consider_gateway_and_metric) ==
    /\ a.network = b.network
    /\ a.plen = b.plen
    /\ (~consider_gateway_and_metric
        \/ (a.gateway = b.gateway /\ a.metric = b.metric))

(***************************************************************************)
(* Mutation primitives.  A g_return_if_fail precondition that does not     *)
(* hold makes the call return with the aggregate untouched.                *)
(***************************************************************************)
nm_ip4_config_set_never_default(config, never_default) ==
    [config EXCEPT !.never_default = never_default]

nm_ip4_config_set_gateway(config, gateway) ==
    IF config.gateway # gateway
    THEN NOTIFY([config EXCEPT !.gateway = gateway], {"PROP_GATEWAY"})
    ELSE config

nm_ip4_config_reset_addresses(config) ==
    IF Len(config.addresses) # 0
    THEN NOTIFY([config EXCEPT !.addresses = <<>>],
                {"PROP_ADDRESS_DATA", "PROP_ADDRESSES"})
    ELSE config

\* The 0-based index of the first stored address that add_address takes for
\* a duplicate of new, or the array's length.
add_address_find(addresses, new) ==
    IF \E k \in 1..Len(addresses) :
           addresses_are_duplicate(addresses[k], new, FALSE)
    THEN (CHOOSE k \in 1..Len(addresses) :
              /\ addresses_are_duplicate(addresses[k], new, FALSE)
              /\ \A j \in 1..(k - 1) :
                     ~addresses_are_duplicate(addresses[j], new, FALSE)) - 1
    ELSE Len(addresses)

\* The stored item after a collision of item_old with new.
add_address_overwrite(item_old, new) ==
    LET copied == [new EXCEPT !.source = MAX(item_old.source, new.source)]
    IN  IF \/ (new.source = NM_IP_CONFIG_SOURCE_KERNEL
               /\ new.source # item_old.source)
           \/ nm_platform_ip_address_cmp_expiry(item_old, new) > 0
        THEN [copied EXCEPT !.timestamp = item_old.timestamp,
                            !.lifetime = item_old.lifetime,
                            !.preferred = item_old.preferred]
        ELSE copied

nm_ip4_config_add_address(config, new) ==
    LET i == add_address_find(config.addresses, new)
    IN  IF i = Len(config.addresses)
        THEN NOTIFY([config EXCEPT !.addresses = Append(@, new)],
                    {"PROP_ADDRESS_DATA", "PROP_ADDRESSES"})
        ELSE LET item_old == config.addresses[i + 1]
                 item == add_address_overwrite(item_old, new)
             IN  IF nm_platform_ip4_address_cmp(item_old, new) = 0
                 THEN config
                 ELSE IF nm_platform_ip4_address_cmp(item_old, item) = 0
                 THEN config
                 ELSE NOTIFY([config EXCEPT !.addresses[i + 1] = item],
                             {"PROP_ADDRESS_DATA", "PROP_ADDRESSES"})

nm_ip4_config_del_address(config, i) ==
    IF guint32_lt(i, Len(config.addresses))
    THEN NOTIFY([config EXCEPT !.addresses = g_array_remove_index(@, i)],
                {"PROP_ADDRESS_DATA", "PROP_ADDRESSES"})
    ELSE config

nm_ip4_config_reset_routes(config) ==
    IF Len(config.routes) # 0
    THEN NOTIFY([config EXCEPT !.routes = <<>>],
                {"PROP_ROUTE_DATA", "PROP_ROUTES"})
    ELSE config

\* The 0-based index of the first stored route that add_route takes for a
\* duplicate of new, or the array's length.
add_route_find(routes, new) ==
    IF \E k \in 1..Len(routes) : routes_are_duplicate(routes[k], new, FALSE)
    THEN (CHOOSE k \in 1..Len(routes) :
              /\ routes_are_duplicate(routes[k], new, FALSE)
              /\ \A j \in 1..(k - 1) :
                     ~routes_are_duplicate(routes[j], new, FALSE)) - 1
    ELSE Len(routes)

\* The loop of add_route and what follows it.
add_route_store_keeps_new_source(config, new) ==
    LET i == add_route_find(config.routes, new)
    IN  IF i = Len(config.routes)
        THEN NOTIFY([config EXCEPT !.routes = Append(@, new)],
                    {"PROP_ROUTE_DATA", "PROP_ROUTES"})
        ELSE IF nm_platform_ip4_route_cmp(config.routes[i + 1], new) = 0
        THEN config
        ELSE NOTIFY([config EXCEPT !.routes[i + 1] = new],
                    {"PROP_ROUTE_DATA", "PROP_ROUTES"})

add_route_store(config, new) ==
    LET i == add_route_find(config.routes, new)
    IN  IF i = Len(config.routes)
        THEN NOTIFY([config EXCEPT !.routes = Append(@, new)],
                    {"PROP_ROUTE_DATA", "PROP_ROUTES"})
        ELSE LET item == config.routes[i + 1]
                 old_source == item.source
             IN  IF nm_platform_ip4_route_cmp(item, new) = 0
                 THEN config
                 ELSE NOTIFY([config EXCEPT !.routes[i + 1] =
                                 [new EXCEPT !.source =
                                      MAX(old_source, new.source)]],
                             {"PROP_ROUTE_DATA", "PROP_ROUTES"})

\* add_route without its g_return_if_fail (new->plen > 0).
add_route_no_plen_check(config, new) == add_route_store(config, new)

nm_ip4_config_add_route(config, new) ==
    IF ~(new.plen > 0) THEN config ELSE add_route_store(config, new)

nm_ip4_config_del_route(config, i) ==
    IF guint32_lt(i, Len(config.routes))
    THEN NOTIFY([config EXCEPT !.routes = g_array_remove_index(@, i)],
                {"PROP_ROUTE_DATA", "PROP_ROUTES"})
    ELSE config

nm_ip4_config_reset_nameservers(config) ==
    IF Len(config.nameservers) # 0
    THEN NOTIFY([config EXCEPT !.nameservers = <<>>], {"PROP_NAMESERVERS"})
    ELSE config

add_nameserver_always_appends(config, new) ==
    IF new = 0 THEN config
    ELSE NOTIFY([config EXCEPT !.nameservers = Append(@, new)],
                {"PROP_NAMESERVERS"})

nm_ip4_config_add_nameserver(config, new) ==
    IF new = 0 THEN config
    ELSE IF new \in Range(config.nameservers) THEN config
    ELSE NOTIFY([config EXCEPT !.nameservers = Append(@, new)],
                {"PROP_NAMESERVERS"})

nm_ip4_config_del_nameserver(config, i) ==
    IF guint32_lt(i, Len(config.nameservers))
    THEN NOTIFY([config EXCEPT !.nameservers = g_array_remove_index(@, i)],
                {"PROP_NAMESERVERS"})
    ELSE config

nm_ip4_config_reset_domains(config) ==
    IF Len(config.domains) # 0
    THEN NOTIFY([config EXCEPT !.domains = <<>>], {"PROP_DOMAINS"})
    ELSE config

nm_ip4_config_add_domain(config, domain) ==
    IF domain = NULL \/ domain = <<>> THEN config
    ELSE IF domain \in Range(config.domains) THEN config
    ELSE NOTIFY([config EXCEPT !.domains = Append(@, domain)],
                {"PROP_DOMAINS"})

nm_ip4_config_del_domain(config, i) ==
    IF guint32_lt(i, Len(config.domains))
    THEN NOTIFY([config EXCEPT !.domains = g_array_remove_index(@, i)],
                {"PROP_DOMAINS"})
    ELSE config

nm_ip4_config_reset_searches(config) ==
    IF Len(config.searches) # 0
    THEN NOTIFY([config EXCEPT !.searches = <<>>], {"PROP_SEARCHES"})
    ELSE config

nm_ip4_config_add_search(config, new) ==
    IF new = NULL \/ new = <<>> THEN config
    ELSE IF new \in Range(config.searches) THEN config
    ELSE NOTIFY([config EXCEPT !.searches = Append(@, new)],
                {"PROP_SEARCHES"})

nm_ip4_config_del_search(config, i) ==
    IF guint32_lt(i, Len(config.searches))
    THEN NOTIFY([config EXCEPT !.searches = g_array_remove_index(@, i)],
                {"PROP_SEARCHES"})
    ELSE config

nm_ip4_config_set_mss(config, mss) == [config EXCEPT !.mss = mss]

nm_ip4_config_reset_nis_servers(config) == [config EXCEPT !.nis = <<>>]

nm_ip4_config_add_nis_server(config, nis) ==
    IF nis \in Range(config.nis) THEN config
    ELSE [config EXCEPT !.nis = Append(@, nis)]

nm_ip4_config_del_nis_server(config, i) ==
    IF guint32_lt(i, Len(config.nis))
    THEN [config EXCEPT !.nis = g_array_remove_index(@, i)]
    ELSE config

nm_ip4_config_set_nis_domain(config, domain) ==
    [config EXCEPT !.nis_domain = domain]

nm_ip4_config_reset_wins(config) ==
    IF Len(config.wins) # 0
    THEN NOTIFY([config EXCEPT !.wins = <<>>], {"PROP_WINS_SERVERS"})
    ELSE config

nm_ip4_config_add_wins(config, wins) ==
    IF wins = 0 THEN config
    ELSE IF wins \in Range(config.wins) THEN config
    ELSE NOTIFY([config EXCEPT !.wins = Append(@, wins)],
                {"PROP_WINS_SERVERS"})

nm_ip4_config_del_wins(config, i) ==
    IF guint32_lt(i, Len(config.wins))
    THEN NOTIFY([config EXCEPT !.wins = g_array_remove_index(@, i)],
                {"PROP_WINS_SERVERS"})
    ELSE config

\* set_mtu storing the value and the source whatever is stored.
set_mtu_unconditional(config, mtu, source) ==
    [config EXCEPT !.mtu = mtu, !.mtu_source = source]

nm_ip4_config_set_mtu(config, mtu, source) ==
    IF source > config.mtu_source
    THEN [config EXCEPT !.mtu = mtu, !.mtu_source = source]
    ELSE IF /\ source = config.mtu_source
            /\ (config.mtu = 0 \/ guint32_lt(mtu, config.mtu))
    THEN [config EXCEPT !.mtu = mtu]
    ELSE config

(***************************************************************************)
(* inet_pton (AF_INET, src, dst): the text of a dotted quad, as a sequence *)
(* of character codes, to the address as it lies in memory.  ret is the    *)
(* value returned; dst is written only when ret is 1.                      *)
(***************************************************************************)
inet_pton_digit(st, ch) ==
    IF st.saw_digit /\ st.tmp[st.tp] = 0 THEN [st EXCEPT !.ret = 0]
    ELSE IF st.tmp[st.tp] * 10 + (ch - 48) > 255 THEN [st EXCEPT !.ret = 0]
    ELSE IF ~st.saw_digit /\ st.octets + 1 > 4 THEN [st EXCEPT !.ret = 0]
    ELSE [st EXCEPT !.tmp[st.tp] = @ * 10 + (ch - 48),
                    !.octets = IF st.saw_digit THEN @ ELSE @ + 1,
                    !.saw_digit = TRUE]

inet_pton_dot(st) ==
    IF st.octets = 4 THEN [st EXCEPT !.ret = 0]
    ELSE [st EXCEPT !.tp = @ + 1, !.saw_digit = FALSE]

RECURSIVE inet_pton_from(_, _, _)
inet_pton_from(src, i, st) ==
    IF st.ret = 0 THEN st
    ELSE IF i > Len(src)
    THEN (IF st.octets < 4 THEN [st EXCEPT !.ret = 0] ELSE st)
    ELSE IF src[i] >= 48 /\ src[i] <= 57
    THEN inet_pton_from(src, i + 1, inet_pton_digit(st, src[i]))
    ELSE IF src[i] = 46 /\ st.saw_digit
    THEN inet_pton_from(src, i + 1, inet_pton_dot(st))
    ELSE [st EXCEPT !.ret = 0]

inet_pton_dst(tmp) ==
    tmp[1] + tmp[2] * 256 + tmp[3] * 65536
        + (IF tmp[4] >= 128 THEN tmp[4] - 256 ELSE tmp[4]) * 16777216

inet_pton(src) ==
    LET st == inet_pton_from(src, 1,
                  [tmp |-> <<0, 0, 0, 0>>, tp |-> 1, saw_digit |-> FALSE,
                   octets |-> 0, ret |-> 1])
    IN  [ret |-> st.ret, dst |-> IF st.ret = 1 THEN inet_pton_dst(st.tmp)
                                 ELSE 0]

(***************************************************************************)
(* Hash and equality.  The checksum is fed a stream of bytes; two SHA-1    *)
(* digests are taken to be equal exactly when the streams are.             *)
(***************************************************************************)
\* The four bytes of a guint32 handed to g_checksum_update.
hash_u32(n) ==
    <<n % 256, (n \div 256) % 256, (n \div 65536) % 256,
      (n \div 16777216) % 256>>

\* The bytes of a string handed to g_checksum_update: strlen (s) of them.
hash_str(s) == IF s = NULL THEN <<>> ELSE s

\* The concatenation of a sequence of byte sequences.
Flatten(chunks) ==
    LET f[k \in 0..Len(chunks)] ==
            IF k = 0 THEN <<>> ELSE f[k - 1] \o chunks[k]
    IN  f[Len(chunks)]

hash_address(address) == hash_u32(address.address) \o hash_u32(address.plen)

hash_route(route) ==
    hash_u32(route.network) \o hash_u32(route.plen)
        \o hash_u32(route.gateway) \o hash_u32(route.metric)

nm_ip4_config_hash(config, dns_only) ==
    (IF ~dns_only
     THEN hash_u32(config.gateway)
          \o Flatten([k \in 1..Len(config.addresses) |->
                         hash_address(config.addresses[k])])
          \o Flatten([k \in 1..Len(config.routes) |->
                         hash_route(config.routes[k])])
          \o Flatten([k \in 1..Len(config.nis) |-> hash_u32(config.nis[k])])
          \o hash_str(config.nis_domain)
     ELSE <<>>)
    \o Flatten([k \in 1..Len(config.nameservers) |->
                   hash_u32(config.nameservers[k])])
    \o Flatten([k \in 1..Len(config.wins) |-> hash_u32(config.wins[k])])
    \o Flatten([k \in 1..Len(config.domains) |-> hash_str(config.domains[k])])
    \o Flatten([k \in 1..Len(config.searches) |->
                   hash_str(config.searches[k])])

nm_ip4_config_equal(a, b) ==
    nm_ip4_config_hash(a, FALSE) = nm_ip4_config_hash(b, FALSE)

(***************************************************************************)
(* Capture.  The platform is an input: the link's master, its addresses    *)
(* and routes in the order the platform returns them, and the nameserver   *)
(* entries of resolv.conf, each the text of one nameserver line.           *)
(***************************************************************************)
\* One entry of resolv.conf: s is its text, parsed is inet_pton (s).
capture_resolv_conf_entry(nameservers, parsed) ==
    IF parsed.ret = 0 \/ parsed.dst = 0 THEN nameservers
    ELSE IF parsed.dst \in Range(nameservers) THEN nameservers
    ELSE Append(nameservers, parsed.dst)

nm_ip4_config_capture_resolv_conf(nameservers, read_ns) ==
    LET f[k \in 0..Len(read_ns)] ==
            IF k = 0 THEN nameservers
            ELSE capture_resolv_conf_entry(f[k - 1], inet_pton(read_ns[k]))
    IN  f[Len(read_ns)]

\* The loop that extracts the gateway from the default routes, from index i
\* (0-based) on; st holds routes, gateway, lowest_metric and has_gateway.
RECURSIVE capture_extract_gateway(_, _)
capture_extract_gateway(st, i) ==
    IF ~(i < Len(st.routes)) THEN st
    ELSE LET route == st.routes[i + 1]
         IN  IF NM_PLATFORM_IP_ROUTE_IS_DEFAULT(route)
             THEN capture_extract_gateway(
                      [routes        |-> g_array_remove_index(st.routes, i),
                       gateway       |->
                           IF guint32_lt(route.metric, st.lowest_metric)
                           THEN route.gateway ELSE st.gateway,
                       lowest_metric |->
                           IF guint32_lt(route.metric, st.lowest_metric)
                           THEN route.metric ELSE st.lowest_metric,
                       has_gateway   |-> TRUE], i)
             ELSE capture_extract_gateway(st, i + 1)

\* The loop dropping every host route to the gateway, whatever gateway the
\* route itself has.
RECURSIVE capture_drop_host_routes_any_gateway(_, _, _)
capture_drop_host_routes_any_gateway(routes, gateway, i) ==
    IF ~(i < Len(routes)) THEN routes
    ELSE LET route == routes[i + 1]
         IN  IF route.plen = 32 /\ route.network = gateway
             THEN capture_drop_host_routes_any_gateway(
                      g_array_remove_index(routes, i), gateway, i)
             ELSE capture_drop_host_routes_any_gateway(routes, gateway, i + 1)

\* The loop that drops the host routes to the gateway, from index i on.
RECURSIVE capture_drop_host_routes(_, _, _)
capture_drop_host_routes(routes, gateway, i) ==
    IF ~(i < Len(routes)) THEN routes
    ELSE LET route == routes[i + 1]
         IN  IF route.plen = 32 /\ route.network = gateway /\ route.gateway = 0
             THEN capture_drop_host_routes(g_array_remove_index(routes, i),
                                           gateway, i)
             ELSE capture_drop_host_routes(routes, gateway, i + 1)

\* The captured aggregate; for a slave the function returns NULL, which
\* is is_null here (config is then of no account).
nm_ip4_config_capture(platform, capture_resolv_conf) ==
    IF platform.master > 0
    THEN [is_null |-> TRUE, config |-> nm_ip4_config_init]
    ELSE
    LET config == nm_ip4_config_init
        old_gateway == config.gateway
        st == capture_extract_gateway(
                  [routes        |-> platform.routes,
                   gateway       |-> config.gateway,
                   lowest_metric |-> G_MAXUINT32,
                   has_gateway   |-> FALSE], 0)
        routes == IF st.has_gateway
                  THEN capture_drop_host_routes(st.routes, st.gateway, 0)
                  ELSE st.routes
        nameservers ==
            IF Len(platform.addresses) # 0 /\ st.has_gateway
               /\ capture_resolv_conf
            THEN nm_ip4_config_capture_resolv_conf(config.nameservers,
                                                   platform.resolv_conf)
            ELSE config.nameservers
    IN  [is_null |-> FALSE,
         config  |->
         [config EXCEPT
            !.addresses = platform.addresses,
            !.routes = routes,
            !.gateway = st.gateway,
            !.nameservers = nameservers,
            !.notified =
                {"PROP_ADDRESS_DATA", "PROP_ROUTE_DATA", "PROP_ADDRESSES",
                 "PROP_ROUTES"}
                \cup (IF nameservers # config.nameservers
                      THEN {"PROP_NAMESERVERS"} ELSE {})
                \cup (IF st.gateway # old_gateway
                      THEN {"PROP_GATEWAY"} ELSE {})]]

(***************************************************************************)
(* Commit.  The platform is an input: what its address sync and its route  *)
(* sync return and the MTU it reports for the link.  The result is the     *)
(* value returned and the platform calls made, in order.                   *)
(***************************************************************************)
RECURSIVE destination_is_direct_from(_, _, _, _, _)
destination_is_direct_from(config, network, plen, shift32, i) ==
    IF i > Len(config.addresses) THEN FALSE
    ELSE LET item == config.addresses[i]
         IN  IF item.plen <= plen
                    /\ same_prefix(item.address, network, item.plen, shift32)
             THEN TRUE
             ELSE destination_is_direct_from(config, network, plen, shift32,
                                             i + 1)

nm_ip4_config_destination_is_direct(config, network, plen, shift32) ==
    destination_is_direct_from(config, network, plen, shift32, 1)

\* The routes appended to the array handed to the route sync.
commit_routes(config, shift32) ==
    LET Appended(route) ==
            ~(route.gateway = 0
                  /\ nm_ip4_config_destination_is_direct(
                         config, route.network, route.plen, shift32))
    IN  SelectSeq(config.routes, Appended)

commit_success_of_both_syncs(platform) ==
    platform.address_sync /\ platform.route_sync

commit_success(platform) == platform.route_sync

commit_mtu(config, ifindex, platform) ==
    IF config.mtu # 0
    THEN <<[fn |-> "nm_platform_link_get_mtu", ifindex |-> ifindex]>>
             \o (IF config.mtu # platform.link_mtu
                 THEN <<[fn |-> "nm_platform_link_set_mtu",
                         ifindex |-> ifindex, mtu |-> config.mtu]>>
                 ELSE <<>>)
    ELSE <<>>

commit_syncs(config, ifindex, default_route_metric, shift32) ==
    <<[fn |-> "nm_platform_ip4_address_sync", ifindex |-> ifindex,
       addresses |-> config.addresses,
       default_route_metric |-> default_route_metric],
      [fn |-> "nm_platform_ip4_route_sync", ifindex |-> ifindex,
       routes |-> commit_routes(config, shift32)]>>

nm_ip4_config_commit(config, ifindex, metric, platform, shift32) ==
    IF ~(ifindex > 0) THEN [returned |-> FALSE, calls |-> <<>>]
    ELSE IF ~commit_success(platform)
    THEN [returned |-> FALSE,
          calls |-> commit_syncs(config, ifindex, metric,
                                 shift32)]
    ELSE [returned |-> TRUE,
          calls |-> commit_syncs(config, ifindex, metric,
                                 shift32)
                        \o commit_mtu(config, ifindex, platform)]

(***************************************************************************)
(* Merge, subtract, replace.                                               *)
(***************************************************************************)
\* for (i = 0; i < array->len; i++) config = Op (config, array[i]).
ForEach(Op(_, _), config, array) ==
    LET f[k \in 0..Len(array)] ==
            IF k = 0 THEN config ELSE Op(f[k - 1], array[k])
    IN  f[Len(array)]

\* The 0-based index of the first element of array that P holds of, or
\* the array's length.
FirstIndexWhere(P(_), array) ==
    IF \E k \in 1..Len(array) : P(array[k])
    THEN (CHOOSE k \in 1..Len(array) :
              P(array[k]) /\ \A j \in 1..(k - 1) : ~P(array[j])) - 1
    ELSE Len(array)

\* merge's steps, in the order of the code.
merge_addresses(dst, src) ==
    ForEach(nm_ip4_config_add_address, dst, src.addresses)

merge_nameservers(dst, src) ==
    ForEach(nm_ip4_config_add_nameserver, dst, src.nameservers)

\* merge taking src's gateway whether or not dst has one.
merge_gateway_unconditional(dst, src) ==
    nm_ip4_config_set_gateway(dst, src.gateway)

merge_gateway(dst, src) ==
    IF dst.gateway = 0 THEN nm_ip4_config_set_gateway(dst, src.gateway)
    ELSE dst

merge_routes(dst, src) == ForEach(nm_ip4_config_add_route, dst, src.routes)

merge_domains(dst, src) == ForEach(nm_ip4_config_add_domain, dst, src.domains)

merge_searches(dst, src) ==
    ForEach(nm_ip4_config_add_search, dst, src.searches)

\* merge taking src's MSS whether or not dst has one.
merge_mss_unconditional(dst, src) == nm_ip4_config_set_mss(dst, src.mss)

merge_mss(dst, src) ==
    IF dst.mss = 0 THEN nm_ip4_config_set_mss(dst, src.mss) ELSE dst

merge_mtu(dst, src) ==
    IF dst.mtu = 0 THEN nm_ip4_config_set_mtu(dst, src.mtu, src.mtu_source)
    ELSE dst

merge_nis_servers(dst, src) ==
    ForEach(nm_ip4_config_add_nis_server, dst, src.nis)

merge_nis_domain(dst, src) ==
    IF src.nis_domain # NULL
    THEN nm_ip4_config_set_nis_domain(dst, src.nis_domain) ELSE dst

merge_wins(dst, src) == ForEach(nm_ip4_config_add_wins, dst, src.wins)

nm_ip4_config_merge(dst, src) ==
    merge_wins(
     merge_nis_domain(
      merge_nis_servers(
       merge_mtu(
        merge_mss(
         merge_searches(
          merge_domains(
           merge_routes(
            merge_gateway(
             merge_nameservers(
              merge_addresses(dst, src),
             src), src), src), src), src), src), src), src), src), src)

\* One pass of subtract's outer loops: the first entry of dst that matches
\* the src entry is deleted.
subtract_address(dst, src_addr) ==
    LET Match(dst_addr) == /\ src_addr.address = dst_addr.address
                           /\ src_addr.plen = dst_addr.plen
        j == FirstIndexWhere(Match, dst.addresses)
    IN  IF j < Len(dst.addresses) THEN nm_ip4_config_del_address(dst, j)
        ELSE dst

subtract_nameserver(dst, src_ns) ==
    LET j == IndexOfValue(dst.nameservers, src_ns)
    IN  IF j < Len(dst.nameservers) THEN nm_ip4_config_del_nameserver(dst, j)
        ELSE dst

subtract_route(dst, src_route) ==
    LET Match(dst_route) == /\ src_route.network = dst_route.network
                            /\ src_route.plen = dst_route.plen
        j == FirstIndexWhere(Match, dst.routes)
    IN  IF j < Len(dst.routes) THEN nm_ip4_config_del_route(dst, j)
        ELSE dst

subtract_domain(dst, src_domain) ==
    LET j == IndexOfValue(dst.domains, src_domain)
    IN  IF j < Len(dst.domains) THEN nm_ip4_config_del_domain(dst, j)
        ELSE dst

subtract_search(dst, src_search) ==
    LET j == IndexOfValue(dst.searches, src_search)
    IN  IF j < Len(dst.searches) THEN nm_ip4_config_del_search(dst, j)
        ELSE dst

subtract_nis_server(dst, src_nis) ==
    LET j == IndexOfValue(dst.nis, src_nis)
    IN  IF j < Len(dst.nis) THEN nm_ip4_config_del_nis_server(dst, j)
        ELSE dst

subtract_wins(dst, src_wins) ==
    LET j == IndexOfValue(dst.wins, src_wins)
    IN  IF j < Len(dst.wins) THEN nm_ip4_config_del_wins(dst, j)
        ELSE dst

\* subtract's steps, in the order of the code.
subtract_addresses(dst, src) == ForEach(subtract_address, dst, src.addresses)

subtract_nameservers(dst, src) ==
    ForEach(subtract_nameserver, dst, src.nameservers)

subtract_gateway(dst, src) ==
    IF src.gateway = dst.gateway THEN nm_ip4_config_set_gateway(dst, 0)
    ELSE dst

\* subtract keeping the gateway of an aggregate left without addresses.
subtract_gateway_with_no_address_kept(dst) == dst

subtract_gateway_no_address(dst) ==
    IF Len(dst.addresses) = 0 THEN nm_ip4_config_set_gateway(dst, 0) ELSE dst

subtract_routes(dst, src) == ForEach(subtract_route, dst, src.routes)

subtract_domains(dst, src) == ForEach(subtract_domain, dst, src.domains)

subtract_searches(dst, src) == ForEach(subtract_search, dst, src.searches)

subtract_mss(dst, src) ==
    IF src.mss = dst.mss THEN nm_ip4_config_set_mss(dst, 0) ELSE dst

subtract_mtu(dst, src) ==
    IF src.mtu = dst.mtu
    THEN nm_ip4_config_set_mtu(dst, 0, NM_IP_CONFIG_SOURCE_UNKNOWN)
    ELSE dst

subtract_nis_servers(dst, src) == ForEach(subtract_nis_server, dst, src.nis)

subtract_nis_domain(dst, src) ==
    IF src.nis_domain = dst.nis_domain
    THEN nm_ip4_config_set_nis_domain(dst, NULL) ELSE dst

subtract_winses(dst, src) == ForEach(subtract_wins, dst, src.wins)

nm_ip4_config_subtract(dst, src) ==
    subtract_winses(
     subtract_nis_domain(
      subtract_nis_servers(
       subtract_mtu(
        subtract_mss(
         subtract_searches(
          subtract_domains(
           subtract_routes(
            subtract_gateway_no_address(
             subtract_gateway(
              subtract_nameservers(
               subtract_addresses(dst, src),
              src), src)), src), src), src), src), src), src), src), src)

\* The comparison of the address lists taking two addresses for the same
\* whatever their prefix lengths.
replace_addresses_cmp_ignoring_plen(dst, src) ==
    LET num == Len(src.addresses)
    IN  IF num = Len(dst.addresses)
        THEN [are_equal |-> \A k \in 1..num :
                  nm_platform_ip4_address_cmp(src.addresses[k],
                                              dst.addresses[k]) = 0,
              relevant  |-> \E k \in 1..num :
                  /\ nm_platform_ip4_address_cmp(src.addresses[k],
                                                 dst.addresses[k]) # 0
                  /\ ~addresses_are_duplicate(src.addresses[k],
                                              dst.addresses[k], FALSE)]
        ELSE [are_equal |-> FALSE, relevant |-> TRUE]

\* replace's positional comparison of the address lists: are_equal, and
\* whether it sets has_relevant_changes.
replace_addresses_cmp(dst, src) ==
    LET num == Len(src.addresses)
    IN  IF num = Len(dst.addresses)
        THEN [are_equal |-> \A k \in 1..num :
                  nm_platform_ip4_address_cmp(src.addresses[k],
                                              dst.addresses[k]) = 0,
              relevant  |-> \E k \in 1..num :
                  /\ nm_platform_ip4_address_cmp(src.addresses[k],
                                                 dst.addresses[k]) # 0
                  /\ ~addresses_are_duplicate(src.addresses[k],
                                              dst.addresses[k], TRUE)]
        ELSE [are_equal |-> FALSE, relevant |-> TRUE]

\* The same for the route lists.
replace_routes_cmp(dst, src) ==
    LET num == Len(src.routes)
    IN  IF num = Len(dst.routes)
        THEN [are_equal |-> \A k \in 1..num :
                  nm_platform_ip4_route_cmp(src.routes[k], dst.routes[k]) = 0,
              relevant  |-> \E k \in 1..num :
                  /\ nm_platform_ip4_route_cmp(src.routes[k],
                                               dst.routes[k]) # 0
                  /\ ~routes_are_duplicate(src.routes[k], dst.routes[k],
                                           TRUE)]
        ELSE [are_equal |-> FALSE, relevant |-> TRUE]

\* replace's steps, in the order of the code.  st holds the aggregate dst
\* (config) and the flags has_minor_changes and has_relevant_changes.
replace_never_default(st, src) ==
    IF src.never_default # st.config.never_default
    THEN [st EXCEPT !.config.never_default = src.never_default,
                    !.has_minor_changes = TRUE]
    ELSE st

replace_gateway(st, src) ==
    IF src.gateway # st.config.gateway
    THEN [st EXCEPT !.config = nm_ip4_config_set_gateway(@, src.gateway),
                    !.has_relevant_changes = TRUE]
    ELSE st

replace_addresses(st, src) ==
    [config |->
         IF ~replace_addresses_cmp(st.config, src).are_equal
         THEN ForEach(nm_ip4_config_add_address,
                      nm_ip4_config_reset_addresses(st.config), src.addresses)
         ELSE st.config,
     has_relevant_changes |->
         st.has_relevant_changes
             \/ replace_addresses_cmp(st.config, src).relevant,
     has_minor_changes |->
         st.has_minor_changes
             \/ ~replace_addresses_cmp(st.config, src).are_equal]

replace_routes(st, src) ==
    [config |->
         IF ~replace_routes_cmp(st.config, src).are_equal
         THEN ForEach(nm_ip4_config_add_route,
                      nm_ip4_config_reset_routes(st.config), src.routes)
         ELSE st.config,
     has_relevant_changes |->
         st.has_relevant_changes \/ replace_routes_cmp(st.config, src).relevant,
     has_minor_changes |->
         st.has_minor_changes \/ ~replace_routes_cmp(st.config, src).are_equal]

replace_nameservers(st, src) ==
    IF src.nameservers # st.config.nameservers
    THEN [st EXCEPT
             !.config = ForEach(nm_ip4_config_add_nameserver,
                                nm_ip4_config_reset_nameservers(@),
                                src.nameservers),
             !.has_relevant_changes = TRUE]
    ELSE st

replace_domains(st, src) ==
    IF src.domains # st.config.domains
    THEN [st EXCEPT
             !.config = ForEach(nm_ip4_config_add_domain,
                                nm_ip4_config_reset_domains(@), src.domains),
             !.has_relevant_changes = TRUE]
    ELSE st

replace_searches(st, src) ==
    IF src.searches # st.config.searches
    THEN [st EXCEPT
             !.config = ForEach(nm_ip4_config_add_search,
                                nm_ip4_config_reset_searches(@), src.searches),
             !.has_relevant_changes = TRUE]
    ELSE st

replace_mss(st, src) ==
    IF src.mss # st.config.mss
    THEN [st EXCEPT !.config = nm_ip4_config_set_mss(@, src.mss),
                    !.has_minor_changes = TRUE]
    ELSE st

replace_nis_servers(st, src) ==
    IF src.nis # st.config.nis
    THEN [st EXCEPT
             !.config = ForEach(nm_ip4_config_add_nis_server,
                                nm_ip4_config_reset_nis_servers(@), src.nis),
             !.has_relevant_changes = TRUE]
    ELSE st

replace_nis_domain(st, src) ==
    IF src.nis_domain # st.config.nis_domain
    THEN [st EXCEPT
             !.config = nm_ip4_config_set_nis_domain(@, src.nis_domain),
             !.has_relevant_changes = TRUE]
    ELSE st

replace_wins(st, src) ==
    IF src.wins # st.config.wins
    THEN [st EXCEPT
             !.config = ForEach(nm_ip4_config_add_wins,
                                nm_ip4_config_reset_wins(@), src.wins),
             !.has_relevant_changes = TRUE]
    ELSE st

replace_mtu(st, src) ==
    IF src.mtu # st.config.mtu
    THEN [st EXCEPT
             !.config = nm_ip4_config_set_mtu(@, src.mtu, src.mtu_source),
             !.has_minor_changes = TRUE]
    ELSE st

replace_steps(dst, src) ==
    replace_mtu(
     replace_wins(
      replace_nis_domain(
       replace_nis_servers(
        replace_mss(
         replace_searches(
          replace_domains(
           replace_nameservers(
            replace_routes(
             replace_addresses(
              replace_gateway(
               replace_never_default(
                [config               |-> dst,
                 has_minor_changes    |-> FALSE,
                 has_relevant_changes |-> FALSE],
               src), src), src), src), src), src), src), src), src), src),
     src), src)

\* What the call leaves and reports, given config_equal as computed on
\* entry and st as the steps leave it: the aggregate dst, the return value
\* (changed), the out-parameter (relevant), and whether the closing
\* g_assert holds.
\*
\* Where g_assert (config_equal == !has_relevant_changes) fails the process
\* is aborted with dst as the steps left it: the notifications, frozen
\* during the call, are not emitted, *relevant_changes is not written and
\* nothing is returned, so changed and relevant are FALSE as before a call.
replace_result(config_equal, st) ==
    IF config_equal = ~st.has_relevant_changes
    THEN [config       |-> st.config,
          changed      |-> st.has_relevant_changes \/ st.has_minor_changes,
          relevant     |-> st.has_relevant_changes,
          config_equal |-> config_equal,
          assert_holds |-> TRUE]
    ELSE [config       |-> [st.config EXCEPT !.notified = {}],
          changed      |-> FALSE,
          relevant     |-> FALSE,
          config_equal |-> config_equal,
          assert_holds |-> FALSE]

nm_ip4_config_replace(dst, src) ==
    replace_result(nm_ip4_config_equal(dst, src), replace_steps(dst, src))

(***************************************************************************)
(* Merging a connection's IP setting.  The setting is a record of what its *)
(* getters return: pointer is "NULL" for no setting; gateway is NULL or    *)
(* the gateway's text; dns and dns_searches are sequences of texts.        *)
(* uninitialized is what the local variable `gateway` holds before         *)
(* inet_pton is called; inet_pton leaves it alone when it rejects the      *)
(* text.                                                                   *)
(***************************************************************************)
merge_setting_never_default(config, setting) ==
    IF setting.never_default
    THEN nm_ip4_config_set_never_default(config, TRUE)
    ELSE IF setting.ignore_auto_routes
    THEN nm_ip4_config_set_never_default(config, FALSE)
    ELSE config

merge_setting_gateway(config, setting, uninitialized) ==
    IF setting.gateway # NULL
    THEN nm_ip4_config_set_gateway(
             config,
             IF inet_pton(setting.gateway).ret = 1
             THEN inet_pton(setting.gateway).dst ELSE uninitialized)
    ELSE config

\* The string g_strlcpy (dest, src, dest_size) leaves in dest: src cut to
\* dest_size - 1 bytes.
g_strlcpy(src, dest_size) ==
    IF Len(src) < dest_size THEN src ELSE SubSeq(src, 1, dest_size - 1)

\* A label of <<>> stands for an address without a label attribute, which
\* leaves the zeroed label as it is.
merge_setting_address(config, s_addr) ==
    nm_ip4_config_add_address(
        config,
        [address   |-> s_addr.address,
         plen      |-> s_addr.prefix,
         timestamp |-> 0,
         lifetime  |-> NM_PLATFORM_LIFETIME_PERMANENT,
         preferred |-> NM_PLATFORM_LIFETIME_PERMANENT,
         source    |-> NM_IP_CONFIG_SOURCE_USER,
         label     |-> g_strlcpy(s_addr.label, IFNAMSIZ)])

merge_setting_addresses(config, setting) ==
    ForEach(merge_setting_address, config, setting.addresses)

\* Whether g_assert (route.plen > 0) fails for a route of the setting; the
\* process is aborted there.
merge_setting_assert_fails(setting) ==
    /\ setting.pointer # "NULL"
    /\ \E k \in 1..Len(setting.routes) : ~(setting.routes[k].prefix > 0)

\* The routes of the setting the loop passes to add_route: those before
\* the first one the assertion fails for.
merge_setting_routes_added(setting) ==
    IF merge_setting_assert_fails(setting)
    THEN SubSeq(setting.routes, 1,
                (CHOOSE k \in 1..Len(setting.routes) :
                     /\ ~(setting.routes[k].prefix > 0)
                     /\ \A j \in 1..(k - 1) : setting.routes[j].prefix > 0)
                    - 1)
    ELSE setting.routes

\* The metric of a setting's route is a gint64, -1 where none is set; the
\* assignment to route.metric keeps its lower 32 bits.
merge_setting_routes(config, setting, default_route_metric) ==
    LET add(c, s_route) ==
            nm_ip4_config_add_route(
                c,
                [network |-> s_route.dest,
                 plen    |-> s_route.prefix,
                 gateway |-> s_route.next_hop,
                 metric  |-> IF s_route.metric = gint64_minus_one
                             THEN default_route_metric
                             ELSE s_route.metric.lo,
                 source  |-> NM_IP_CONFIG_SOURCE_USER])
    IN  ForEach(add,
                IF setting.ignore_auto_routes
                THEN nm_ip4_config_reset_routes(config) ELSE config,
                merge_setting_routes_added(setting))

merge_setting_ignore_auto_dns(config, setting) ==
    IF setting.ignore_auto_dns
    THEN nm_ip4_config_reset_searches(
             nm_ip4_config_reset_domains(
                 nm_ip4_config_reset_nameservers(config)))
    ELSE config

merge_setting_nameserver(config, dns) ==
    IF inet_pton(dns).ret = 1
    THEN nm_ip4_config_add_nameserver(config, inet_pton(dns).dst)
    ELSE config

merge_setting_dns(config, setting) ==
    ForEach(nm_ip4_config_add_search,
            ForEach(merge_setting_nameserver,
                    merge_setting_ignore_auto_dns(config, setting),
                    setting.dns),
            setting.dns_searches)

\* What is in memory when the call returns or the process is aborted.  The
\* notifications are frozen during the call and are emitted when it thaws
\* them at its end, which an aborted call does not reach.
nm_ip4_config_merge_setting(config, setting, metric, uninitialized) ==
    IF setting.pointer = "NULL" THEN config
    ELSE IF merge_setting_assert_fails(setting)
    THEN [merge_setting_routes(
              merge_setting_addresses(
                  merge_setting_gateway(
                      merge_setting_never_default(config, setting),
                      setting, uninitialized),
                  setting),
              setting, metric) EXCEPT !.notified = {}]
    ELSE merge_setting_dns(
             merge_setting_routes(
                 merge_setting_addresses(
                     merge_setting_gateway(
                         merge_setting_never_default(config, setting),
                         setting, uninitialized),
                     setting),
                 setting, metric),
             setting)

(***************************************************************************)
(* Creating a connection's IP setting from an aggregate.  The result is    *)
(* what the function hands to the setting: the method, the addresses       *)
(* passed to nm_setting_ip_config_add_address, the gateway's text or NULL, *)
(* the routes, the DNS servers' texts and the DNS searches.  method is     *)
(* "NULL" while the local variable is not set.                             *)
(***************************************************************************)
NM_SETTING_IP4_CONFIG_METHOD_AUTO == "auto"
NM_SETTING_IP4_CONFIG_METHOD_MANUAL == "manual"
NM_SETTING_IP4_CONFIG_METHOD_DISABLED == "disabled"

\* The decimal digits of an octet, as character codes.
inet_ntop_octet(n) ==
    IF n < 10 THEN <<48 + n>>
    ELSE IF n < 100 THEN <<48 + (n \div 10), 48 + (n % 10)>>
    ELSE <<48 + (n \div 100), 48 + ((n \div 10) % 10), 48 + (n % 10)>>

\* The dotted quad of an address, octet by octet as it lies in memory.
nm_utils_inet4_ntop(addr) ==
    inet_ntop_octet(Byte(addr, 0)) \o <<46>> \o inet_ntop_octet(Byte(addr, 1))
        \o <<46>> \o inet_ntop_octet(Byte(addr, 2)) \o <<46>>
        \o inet_ntop_octet(Byte(addr, 3))

nm_setting_ip4_config_new ==
    [method       |-> "NULL",
     addresses    |-> <<>>,
     gateway      |-> NULL,
     routes       |-> <<>>,
     dns          |-> <<>>,
     dns_searches |-> <<>>]

\* One pass of the address loop in which an address with a lifetime sets
\* the method only if no address before it has set one.
create_setting_address_first_decides(s_ip4, address) ==
    IF address.lifetime # NM_PLATFORM_LIFETIME_PERMANENT
    THEN [s_ip4 EXCEPT !.method =
              IF @ = "NULL" THEN NM_SETTING_IP4_CONFIG_METHOD_AUTO ELSE @]
    ELSE [s_ip4 EXCEPT
              !.method =
                  IF @ = "NULL" THEN NM_SETTING_IP4_CONFIG_METHOD_MANUAL
                  ELSE @,
              !.addresses =
                  Append(@, [address |-> address.address,
                             prefix  |-> address.plen,
                             label   |-> address.label])]

\* One pass of the address loop.
create_setting_address(s_ip4, address) ==
    IF address.lifetime # NM_PLATFORM_LIFETIME_PERMANENT
    THEN [s_ip4 EXCEPT !.method = NM_SETTING_IP4_CONFIG_METHOD_AUTO]
    ELSE [s_ip4 EXCEPT
              !.method =
                  IF @ = "NULL" THEN NM_SETTING_IP4_CONFIG_METHOD_MANUAL
                  ELSE @,
              !.addresses =
                  Append(@, [address |-> address.address,
                             prefix  |-> address.plen,
                             label   |-> address.label])]

create_setting_gateway(s_ip4, gateway) ==
    IF gateway # 0 /\ Len(s_ip4.addresses) > 0
    THEN [s_ip4 EXCEPT !.gateway = nm_utils_inet4_ntop(gateway)]
    ELSE s_ip4

create_setting_method(s_ip4) ==
    IF s_ip4.method = "NULL"
    THEN [s_ip4 EXCEPT !.method = NM_SETTING_IP4_CONFIG_METHOD_DISABLED]
    ELSE s_ip4

\* One pass of the route loop.  nm_ip_route_new_binary takes the metric as
\* a gint64.
create_setting_route(s_ip4, route) ==
    IF route.plen = 0 THEN s_ip4
    ELSE IF route.source # NM_IP_CONFIG_SOURCE_USER THEN s_ip4
    ELSE [s_ip4 EXCEPT
              !.routes = Append(@, [dest     |-> route.network,
                                    prefix   |-> route.plen,
                                    next_hop |-> route.gateway,
                                    metric   |->
                                        gint64_from_guint32(route.metric)])]

create_setting_nameserver(s_ip4, nameserver) ==
    [s_ip4 EXCEPT !.dns = Append(@, nm_utils_inet4_ntop(nameserver))]

create_setting_search(s_ip4, search) ==
    [s_ip4 EXCEPT !.dns_searches = Append(@, search)]

\* config_is_null stands for a NULL config (config is then of no account).
nm_ip4_config_create_setting(config_is_null, config) ==
    IF config_is_null
    THEN [nm_setting_ip4_config_new EXCEPT
              !.method = NM_SETTING_IP4_CONFIG_METHOD_DISABLED]
    ELSE ForEach(create_setting_search,
          ForEach(create_setting_nameserver,
           ForEach(create_setting_route,
            create_setting_method(
             create_setting_gateway(
              ForEach(create_setting_address, nm_setting_ip4_config_new,
                      config.addresses),
              config.gateway)),
            config.routes),
           config.nameservers),
          config.searches)

(***************************************************************************)
(* The direct route to a host.  The result is the route found, or is_null  *)
(* for NULL (route is then of no account).                                 *)
(***************************************************************************)
\* NMPlatformIP4Route *best_route = NULL.
best_route_null ==
    [is_null |-> TRUE,
     route   |-> [network |-> 0, plen |-> 0, gateway |-> 0, metric |-> 0,
                  source |-> 0]]

\* The octet with all but its first `keep` bits cleared.
clear_host_octet(octet, keep) ==
    IF keep >= 8 THEN octet
    ELSE IF keep <= 0 THEN 0
    ELSE octet - (octet % (2 ^ (8 - keep)))

\* addr & netmask (plen), for an address as it lies in memory: the first
\* plen bits of the dotted form are kept.
nm_utils_ip4_address_clear_host_address(addr, plen) ==
    inet_pton_dst(<<clear_host_octet(Byte(addr, 0), plen),
                    clear_host_octet(Byte(addr, 1), plen - 8),
                    clear_host_octet(Byte(addr, 2), plen - 16),
                    clear_host_octet(Byte(addr, 3), plen - 24)>>)

\* One pass of the loop: best_route after item is looked at.
direct_route_item(best_route, item, host) ==
    IF item.gateway # 0 THEN best_route
    ELSE IF ~best_route.is_null /\ best_route.route.plen > item.plen
    THEN best_route
    ELSE IF nm_utils_ip4_address_clear_host_address(host, item.plen)
                # nm_utils_ip4_address_clear_host_address(item.network,
                                                          item.plen)
    THEN best_route
    ELSE IF /\ ~best_route.is_null
            /\ ~guint32_lt(item.metric, best_route.route.metric)
    THEN best_route
    ELSE [is_null |-> FALSE, route |-> item]

RECURSIVE direct_route_from(_, _, _, _)
direct_route_from(routes, host, best_route, i) ==
    IF ~(i < Len(routes)) THEN best_route
    ELSE direct_route_from(routes, host,
                           direct_route_item(best_route, routes[i + 1], host),
                           i + 1)

nm_ip4_config_get_direct_route_for_host(config, host) ==
    IF host = 0 THEN best_route_null
    ELSE direct_route_from(config.routes, host, best_route_null, 0)

(***************************************************************************)
(* The platform layer (NMPlatform).  Only its interface is at hand         *)
(* (nm-platform.h); its behaviour follows the contract of the              *)
(* specification: a call changes the kernel, reads the object again and    *)
(* announces it before it returns; a kernel notification makes the layer   *)
(* read the object again from the kernel instead of trusting what the      *)
(* notification carries.  Three objects are followed: a dummy link, and    *)
(* one IPv4 address and one IPv4 route of another link.  kver counts the   *)
(* kernel's changes of an object, cver is the count at which the layer's   *)
(* copy was read, observed the highest count shown to a caller so far.     *)
(***************************************************************************)
PlatformObjects == {"link", "ip4-address", "ip4-route"}

ObjectAbsent == [exists |-> FALSE, up |-> FALSE, arp |-> FALSE]

ObjectAdded == [exists |-> TRUE, up |-> FALSE, arp |-> FALSE]

PlatformCalls ==
    {[object |-> "link", op |-> op] :
         op \in {"add", "delete", "set_up", "set_down", "set_arp",
                 "set_noarp"}}
        \cup {[object |-> o, op |-> op] :
                  o \in {"ip4-address", "ip4-route"}, op \in {"add", "delete"}}

PlatformReturn(kind, object, op, ver, returned, shown) ==
    [kind |-> kind, object |-> object, op |-> op, ver |-> ver,
     returned |-> returned, shown |-> shown]

nm_platform_setup ==
    [kernel   |-> [o \in PlatformObjects |-> ObjectAbsent],
     kver     |-> [o \in PlatformObjects |-> 0],
     cache    |-> [o \in PlatformObjects |-> ObjectAbsent],
     cver     |-> [o \in PlatformObjects |-> 0],
     queue    |-> <<>>,
     observed |-> [o \in PlatformObjects |-> 0],
     call     |-> PlatformReturn("none", "link", "none", 0, FALSE, <<>>)]

kernel_accepts(state, op) == IF op = "add" THEN ~state.exists ELSE state.exists

kernel_effect(state, op) ==
    CASE op = "add" -> ObjectAdded
      [] op = "delete" -> ObjectAbsent
      [] op = "set_up" -> [state EXCEPT !.up = TRUE]
      [] op = "set_down" -> [state EXCEPT !.up = FALSE]
      [] op = "set_arp" -> [state EXCEPT !.arp = TRUE]
      [] op = "set_noarp" -> [state EXCEPT !.arp = FALSE]

\* The kernel changes the object and queues a notification of the change.
kernel_change(p, o, op) ==
    IF kernel_effect(p.kernel[o], op) = p.kernel[o] THEN p
    ELSE [p EXCEPT !.kernel[o] = kernel_effect(p.kernel[o], op),
                   !.kver[o] = @ + 1,
                   !.queue = Append(@, [object |-> o,
                                        state  |-> kernel_effect(p.kernel[o],
                                                                 op),
                                        ver    |-> p.kver[o] + 1])]

refresh_object(p, o) ==
    [p EXCEPT !.cache[o] = p.kernel[o], !.cver[o] = p.kver[o]]

call_object_left_to_events(p, o) == p

call_object(p, o) == refresh_object(p, o)

event_object_from_message(p, event) ==
    [p EXCEPT !.cache[event.object] = event.state,
              !.cver[event.object] = event.ver]

event_object(p, event) == refresh_object(p, event.object)

\* What a caller is shown: a query's result or a signal's object.
Shown(p, o, kind) ==
    [object |-> o, kind |-> kind, state |-> p.cache[o], ver |-> p.cver[o]]

platform_return(p, call) ==
    [p EXCEPT !.call = call,
              !.observed =
                  [o \in PlatformObjects |->
                      IF \E k \in 1..Len(call.shown) :
                             call.shown[k].object = o
                                 /\ call.shown[k].ver > p.observed[o]
                      THEN call.shown[1].ver ELSE p.observed[o]]]

signal_of_call(op) ==
    CASE op = "add" -> "added" [] op = "delete" -> "removed"
      [] OTHER -> "changed"

signal_of_event(cached, kernel) ==
    IF ~cached.exists /\ kernel.exists THEN "added"
    ELSE IF cached.exists /\ ~kernel.exists THEN "removed" ELSE "changed"

nm_platform_call_done(p, o, op) ==
    platform_return(p, PlatformReturn("call", o, op, 0, TRUE,
                                      <<Shown(p, o, signal_of_call(op))>>))

\* A mutating call: nm_platform_dummy_add, nm_platform_link_delete,
\* nm_platform_link_set_up, ..., nm_platform_ip4_address_add, ...
nm_platform_call(p, o, op) ==
    IF ~kernel_accepts(p.kernel[o], op)
    THEN platform_return(p, PlatformReturn("call", o, op, 0, FALSE, <<>>))
    ELSE nm_platform_call_done(call_object(kernel_change(p, o, op), o), o, op)

\* nm_platform_link_exists, nm_platform_link_is_up,
\* nm_platform_ip4_address_exists, nm_platform_ip4_route_exists, ...
nm_platform_query(p, o) ==
    platform_return(p, PlatformReturn("query", o, "none", 0, TRUE,
                                      <<Shown(p, o, "query")>>))

event_notification_done(p, q, event) ==
    platform_return(
        q, PlatformReturn("event", event.object, "none", event.ver, TRUE,
               IF q.cache[event.object] = p.cache[event.object] THEN <<>>
               ELSE <<Shown(q, event.object,
                            signal_of_event(p.cache[event.object],
                                            q.cache[event.object]))>>))

\* The layer reads the oldest kernel notification.
event_notification(p) ==
    event_notification_done(
        p, event_object([p EXCEPT !.queue = Tail(@)], Head(p.queue)),
        Head(p.queue))

(***************************************************************************)
(* Inputs.                                                                 *)
(***************************************************************************)
MaxSteps == 3
MaxAdds == 3
MaxRouteSteps == 3
MaxBuild == 3
MaxCommitSteps == 3
MaxSourceSteps == 3
MaxAddressSteps == 2
MaxSettingSteps == 3
MaxListSteps == 3
MaxPlatformSteps == 4
MaxCaptures == 2
MaxScalarSteps == 4
MaxReplaceSteps == 5
MaxHostRouteCaptures == 2
MaxCreateSteps == 4
MaxDirectSteps == 4

Cfgs == {1, 2}

Other(c) == 3 - c

\* An NMPlatformIP4Address.
Address(address, plen, lifetime, source) ==
    [address   |-> address,
     plen      |-> plen,
     timestamp |-> 1,
     lifetime  |-> lifetime,
     preferred |-> lifetime,
     source    |-> source,
     label     |-> <<>>]

\* An NMPlatformIP4Route.
Route(network, plen, gateway, metric, source) ==
    [network |-> network,
     plen    |-> plen,
     gateway |-> gateway,
     metric  |-> metric,
     source  |-> source]

\* What the platform reports for the link.
Platform(master, addresses, routes, resolv_conf) ==
    [master      |-> master,
     addresses   |-> addresses,
     routes      |-> routes,
     resolv_conf |-> resolv_conf]

\* Address records handed to add_address where two aggregates are built.
CoreAddresses ==
    {Address(1, 8, 100, NM_IP_CONFIG_SOURCE_USER),
     Address(1, 8, 200, NM_IP_CONFIG_SOURCE_USER),
     Address(1, 24, 100, NM_IP_CONFIG_SOURCE_USER),
     Address(2, 8, NM_PLATFORM_LIFETIME_PERMANENT, NM_IP_CONFIG_SOURCE_USER)}

\* Address records handed to add_address where one aggregate is built.
AddAddresses ==
    {Address(a, p, l, s) :
        a \in {1, 2}, p \in {8, 24}, l \in {100, 200},
        s \in {NM_IP_CONFIG_SOURCE_UNKNOWN, NM_IP_CONFIG_SOURCE_KERNEL,
               NM_IP_CONFIG_SOURCE_USER}}

\* Records of one address that differ in when they expire, in source and in
\* label.
LifetimeAddresses ==
    {[Address(1, p, l, s) EXCEPT !.timestamp = t, !.preferred = f,
                                 !.label = b] :
        p \in {8, 24}, l \in {100, 200, NM_PLATFORM_LIFETIME_PERMANENT},
        f \in {50, 100},
        s \in {NM_IP_CONFIG_SOURCE_KERNEL, NM_IP_CONFIG_SOURCE_USER},
        t \in {1, 101, 150}, b \in {<<>>, <<97>>}}

\* Records of one address and of one route that differ in source.
SourceAddresses ==
    {Address(1, p, 100, s) :
        p \in {8, 24},
        s \in {NM_IP_CONFIG_SOURCE_UNKNOWN, NM_IP_CONFIG_SOURCE_KERNEL,
               NM_IP_CONFIG_SOURCE_USER}}

SourceRoutes ==
    {Route(1, 8, g, 10, s) :
        g \in {0, 3},
        s \in {NM_IP_CONFIG_SOURCE_UNKNOWN, NM_IP_CONFIG_SOURCE_KERNEL,
               NM_IP_CONFIG_SOURCE_USER}}

CoreRoutes ==
    {Route(1, 8, 0, 10, NM_IP_CONFIG_SOURCE_USER),
     Route(1, 8, 3, 20, NM_IP_CONFIG_SOURCE_USER),
     Route(2, 16, 0, 10, NM_IP_CONFIG_SOURCE_USER),
     Route(0, 0, 3, 10, NM_IP_CONFIG_SOURCE_USER)}

AddRoutes ==
    {Route(n, p, g, 10, s) :
        n \in {1, 2}, p \in {0, 8, 16}, g \in {0, 3},
        s \in {NM_IP_CONFIG_SOURCE_KERNEL, NM_IP_CONFIG_SOURCE_USER}}

\* The address lists of the platform: an address is held once per
\* (address, plen).
PlatformAddressLists ==
    {<<>>,
     <<Address(1, 8, 100, NM_IP_CONFIG_SOURCE_KERNEL),
       Address(1, 24, 100, NM_IP_CONFIG_SOURCE_KERNEL)>>,
     <<Address(1, 8, 200, NM_IP_CONFIG_SOURCE_KERNEL),
       Address(1, 24, 100, NM_IP_CONFIG_SOURCE_KERNEL)>>}

\* The route lists of the platform: several routes may lead to the same
\* network and prefix with different gateways or metrics.
PlatformRouteLists ==
    {<<>>,
     <<Route(0, 0, 3, 100, NM_IP_CONFIG_SOURCE_KERNEL),
       Route(0, 0, 4, 50, NM_IP_CONFIG_SOURCE_KERNEL),
       Route(4, 32, 0, 10, NM_IP_CONFIG_SOURCE_KERNEL),
       Route(1, 8, 0, 10, NM_IP_CONFIG_SOURCE_KERNEL)>>,
     <<Route(2, 16, 0, 10, NM_IP_CONFIG_SOURCE_KERNEL),
       Route(2, 16, 0, 20, NM_IP_CONFIG_SOURCE_KERNEL)>>}

\* "5.0.0.0", "bogus", "0.0.0.0", "5.0.0.0", "6.0.0.0"
ResolvConfs ==
    {<<<<53, 46, 48, 46, 48, 46, 48>>, <<98, 111, 103, 117, 115>>,
       <<48, 46, 48, 46, 48, 46, 48>>, <<53, 46, 48, 46, 48, 46, 48>>,
       <<54, 46, 48, 46, 48, 46, 48>>>>}

Platforms ==
    {Platform(0, a, r, n) :
        a \in PlatformAddressLists, r \in PlatformRouteLists,
        n \in ResolvConfs}
    \cup {Platform(7, <<>>, <<>>, <<>>)}

\* The default routes a link may have next to its other routes: any number
\* of them, with any metric.
DefaultRouteLists ==
    {<<>>,
     <<Route(0, 0, 3, 100, NM_IP_CONFIG_SOURCE_KERNEL)>>,
     <<Route(0, 0, 3, G_MAXUINT32, NM_IP_CONFIG_SOURCE_KERNEL)>>,
     <<Route(0, 0, 3, 100, NM_IP_CONFIG_SOURCE_KERNEL),
       Route(0, 0, 4, 50, NM_IP_CONFIG_SOURCE_KERNEL)>>,
     <<Route(0, 0, 3, 50, NM_IP_CONFIG_SOURCE_KERNEL),
       Route(0, 0, 4, 50, NM_IP_CONFIG_SOURCE_KERNEL),
       Route(0, 0, 5, 0, NM_IP_CONFIG_SOURCE_KERNEL)>>,
     <<Route(0, 0, 3, G_MAXUINT32, NM_IP_CONFIG_SOURCE_KERNEL),
       Route(0, 0, 4, 50, NM_IP_CONFIG_SOURCE_KERNEL)>>}

\* Host routes of a link: to the gateways 3 and 4 and to 0.0.0.0, with and
\* without a gateway of their own, next to a /24 to the gateway's address,
\* and two host routes to one gateway in a row.
HostRouteLists ==
    {<<Route(3, 32, 0, 10, NM_IP_CONFIG_SOURCE_KERNEL),
       Route(4, 32, 0, 10, NM_IP_CONFIG_SOURCE_KERNEL),
       Route(3, 32, 9, 10, NM_IP_CONFIG_SOURCE_KERNEL),
       Route(3, 24, 0, 10, NM_IP_CONFIG_SOURCE_KERNEL),
       Route(0, 32, 0, 10, NM_IP_CONFIG_SOURCE_KERNEL)>>,
     <<Route(4, 32, 0, 10, NM_IP_CONFIG_SOURCE_KERNEL),
       Route(4, 32, 0, 20, NM_IP_CONFIG_SOURCE_KERNEL),
       Route(4, 32, 9, 10, NM_IP_CONFIG_SOURCE_KERNEL),
       Route(1, 8, 0, 10, NM_IP_CONFIG_SOURCE_KERNEL)>>}

\* Platform states for capture alone: the default routes come first, last
\* or around the other routes of the link.
CapturePlatforms ==
    {Platform(0, a, d \o r, n) :
        a \in PlatformAddressLists, d \in DefaultRouteLists,
        r \in {<<>>, <<Route(4, 32, 0, 10, NM_IP_CONFIG_SOURCE_KERNEL),
                      Route(1, 8, 0, 10, NM_IP_CONFIG_SOURCE_KERNEL)>>},
        n \in ResolvConfs}
    \cup {Platform(0, <<>>, r \o d, <<>>) :
             d \in DefaultRouteLists,
             r \in {<<Route(1, 8, 0, 10, NM_IP_CONFIG_SOURCE_KERNEL)>>}}
    \cup {Platform(7, <<>>, <<>>, <<>>)}

\* Platform states for capture of a link with host routes: the default
\* routes come before or after them.
HostRoutePlatforms ==
    {Platform(0, <<>>, d \o r, <<>>) :
        d \in DefaultRouteLists, r \in HostRouteLists}
    \cup {Platform(0, <<>>, r \o d, <<>>) :
             d \in DefaultRouteLists, r \in HostRouteLists}

Nameservers == {5, 6}
Domains == {<<97>>, <<97, 98>>}
Gateways == {0, 3}
\* 10.0.0.5/24, 10.1.0.5/16 and 10.2.0.5/0 as they lie in memory.
CommitAddresses ==
    {Address(83886090, 24, NM_PLATFORM_LIFETIME_PERMANENT,
             NM_IP_CONFIG_SOURCE_USER),
     Address(83886346, 16, NM_PLATFORM_LIFETIME_PERMANENT,
             NM_IP_CONFIG_SOURCE_USER),
     Address(83886602, 0, NM_PLATFORM_LIFETIME_PERMANENT,
             NM_IP_CONFIG_SOURCE_USER)}

\* 10.0.0.0/24 direct and via 10.0.0.1, 10.0.0.0/16, 10.1.2.0/24,
\* 192.168.0.0/16 and 10.2.0.5/32 direct.
CommitRoutes ==
    {Route(10, 24, 0, 100, NM_IP_CONFIG_SOURCE_USER),
     Route(83886602, 32, 0, 100, NM_IP_CONFIG_SOURCE_USER),
     Route(10, 24, 16777226, 100, NM_IP_CONFIG_SOURCE_USER),
     Route(10, 16, 0, 100, NM_IP_CONFIG_SOURCE_USER),
     Route(131338, 24, 0, 100, NM_IP_CONFIG_SOURCE_USER),
     Route(43200, 16, 0, 100, NM_IP_CONFIG_SOURCE_USER)}

CommitPlatforms ==
    {[address_sync |-> a, route_sync |-> r, link_mtu |-> m] :
         a \in BOOLEAN, r \in BOOLEAN, m \in {1400, 1500}}

Setting(gateway, dns, no_auto_dns, no_auto_routes, never_default, a, r, s) ==
    [pointer            |-> "setting",
     gateway            |-> gateway,
     dns                |-> dns,
     ignore_auto_dns    |-> no_auto_dns,
     ignore_auto_routes |-> no_auto_routes,
     never_default      |-> never_default,
     addresses          |-> a,
     routes             |-> r,
     dns_searches       |-> s]

\* "3.0.0.0", "5.0.0.0", "6.0.0.0", and two texts that are no address:
\* "bogus" and "1.2.3".
Text3 == <<51, 46, 48, 46, 48, 46, 48>>
Text5 == <<53, 46, 48, 46, 48, 46, 48>>
Text6 == <<54, 46, 48, 46, 48, 46, 48>>
TextBogus == <<98, 111, 103, 117, 115>>
TextShort == <<49, 46, 50, 46, 51>>

SettingAddress == [address |-> 1, prefix |-> 8, label |-> <<>>]
SettingRoute ==
    [dest |-> 2, prefix |-> 16, next_hop |-> 0, metric |-> gint64_minus_one]

\* An address with a label of 16 characters, a route with the metric
\* 4294967295 and a route with the prefix length 0.
SettingAddressLongLabel ==
    [address |-> 2, prefix |-> 8, label |-> [k \in 1..16 |-> 96 + k]]
SettingRouteLargestMetric ==
    [dest |-> 4, prefix |-> 8, next_hop |-> 0,
     metric |-> gint64_from_guint32(G_MAXUINT32)]
SettingRouteDefault ==
    [dest |-> 0, prefix |-> 0, next_hop |-> 3, metric |-> gint64_minus_one]

Settings ==
    {[Setting(NULL, <<>>, FALSE, FALSE, FALSE, <<>>, <<>>, <<>>)
          EXCEPT !.pointer = "NULL"],
     Setting(Text3, <<Text5>>, FALSE, FALSE, FALSE, <<>>, <<>>, <<>>),
     Setting(TextBogus, <<>>, FALSE, FALSE, FALSE, <<>>, <<>>, <<>>),
     Setting(NULL, <<TextBogus, Text6, TextShort>>, FALSE, FALSE, FALSE,
             <<>>, <<>>, <<>>),
     Setting(NULL, <<TextBogus>>, TRUE, FALSE, FALSE, <<>>, <<>>, <<>>),
     Setting(Text3, <<>>, FALSE, TRUE, FALSE, <<SettingAddress>>,
             <<SettingRoute>>, <<<<97>>>>),
     Setting(TextShort, <<TextShort>>, FALSE, FALSE, TRUE, <<>>, <<>>,
             <<>>),
     Setting(NULL, <<Text5>>, FALSE, FALSE, FALSE,
             <<SettingAddressLongLabel>>,
             <<SettingRouteLargestMetric, SettingRoute>>, <<>>),
     Setting(Text3, <<Text5>>, FALSE, FALSE, FALSE, <<SettingAddress>>,
             <<SettingRoute, SettingRouteDefault, SettingRouteLargestMetric>>,
             <<>>)}

\* What the stack may hold where `gateway` is placed.
Uninitialized == {0, 9}

\* A link with an address, a default route and a resolv.conf.
ListPlatforms ==
    {Platform(0, <<Address(1, 8, 100, NM_IP_CONFIG_SOURCE_KERNEL)>>,
              <<Route(0, 0, 3, 100, NM_IP_CONFIG_SOURCE_KERNEL)>>, n) :
         n \in ResolvConfs}

MtuInputs ==
    {[mtu |-> 1500, source |-> NM_IP_CONFIG_SOURCE_USER],
     [mtu |-> 1400, source |-> NM_IP_CONFIG_SOURCE_USER],
     [mtu |-> 1400, source |-> NM_IP_CONFIG_SOURCE_KERNEL]}

\* Addresses with and without a lifetime, a gateway, routes of both sources
\* and a nameserver for an aggregate a setting is created from.
CreateAddresses ==
    {Address(a, 8, l, NM_IP_CONFIG_SOURCE_USER) :
        a \in {1, 2, 3}, l \in {100, NM_PLATFORM_LIFETIME_PERMANENT}}

CreateRoutes ==
    {Route(1, 8, 0, 10, NM_IP_CONFIG_SOURCE_USER),
     Route(4, 8, 0, G_MAXUINT32, NM_IP_CONFIG_SOURCE_USER),
     Route(2, 16, 3, 10, NM_IP_CONFIG_SOURCE_KERNEL)}

\* 10.0.0.1 as it lies in memory.
CreateGateways == {16777226}

\* Routes around the host 10.1.0.5 as they lie in memory: 10.0.0.0/8,
\* 10.1.0.0/8 and 10.1.0.0/16 without a gateway and with two metrics,
\* 10.1.0.0/24 through a gateway, and 11.0.0.0/8; the hosts asked for are
\* none, 10.1.0.5 and 12.0.0.1.
DirectRoutes ==
    {Route(n[1], n[2], 0, m, NM_IP_CONFIG_SOURCE_USER) :
        n \in {<<10, 8>>, <<266, 8>>, <<266, 16>>}, m \in {10, 20}}
    \cup {Route(266, 24, 3, 5, NM_IP_CONFIG_SOURCE_USER),
          Route(11, 8, 0, 5, NM_IP_CONFIG_SOURCE_USER)}

DirectHosts == {0, 83886346, 16777228}

\* Records for the lists that replace compares: addresses and routes that
\* differ in identity, and some that differ in metadata only.
ReplaceAddresses ==
    {Address(1, 8, 100, NM_IP_CONFIG_SOURCE_USER),
     Address(1, 8, 200, NM_IP_CONFIG_SOURCE_USER),
     Address(1, 24, 100, NM_IP_CONFIG_SOURCE_USER),
     Address(2, 8, NM_PLATFORM_LIFETIME_PERMANENT, NM_IP_CONFIG_SOURCE_USER)}

ReplaceRoutes ==
    {Route(1, 8, 0, 10, NM_IP_CONFIG_SOURCE_USER),
     Route(1, 8, 0, 10, NM_IP_CONFIG_SOURCE_KERNEL),
     Route(1, 8, 3, 20, NM_IP_CONFIG_SOURCE_USER),
     Route(2, 16, 0, 10, NM_IP_CONFIG_SOURCE_USER)}

\* Indices handed to the del calls: the first entry, and the largest guint,
\* which is beyond every list.
DelIndices == {0, G_MAXUINT32}

\* Values for the scalar fields where merge, subtract and replace meet
\* aggregates with scalars set: a second gateway and MSS, an MTU of a lower
\* source above the stored one, an MTU of 0, the largest MTU, and an empty
\* NIS domain.
ScalarGateways == {0, 3, 4}

ScalarMsses == {1300, 1400}

ScalarMtus ==
    MtuInputs \cup {[mtu |-> 1500, source |-> NM_IP_CONFIG_SOURCE_KERNEL],
                    [mtu |-> 0, source |-> NM_IP_CONFIG_SOURCE_USER],
                    [mtu |-> G_MAXUINT32, source |-> NM_IP_CONFIG_SOURCE_USER]}

ScalarNisDomains == Domains \cup {<<>>}

ScalarAddresses ==
    {Address(1, 8, 100, NM_IP_CONFIG_SOURCE_USER),
     Address(2, 8, NM_PLATFORM_LIFETIME_PERMANENT, NM_IP_CONFIG_SOURCE_USER)}

(***************************************************************************)
(* Actions: one per public call.                                           *)
(***************************************************************************)
\* The aggregate as stored between calls.
Stored(config) == [config EXCEPT !.notified = {}]

\* track remembers, for a merge, for a subtract directly after a merge on
\* the same aggregate, for any other subtract and for a replace, the
\* aggregate as it was before the merge, the subtract or the replace (orig)
\* and the other aggregate (src).
NoTrack ==
    [phase |-> "none", d |-> 0, orig |-> nm_ip4_config_init,
     src |-> nm_ip4_config_init]

Report(op, c, arg, notified) ==
    [op           |-> op,
     c            |-> c,
     arg          |-> arg,
     notified     |-> notified,
     changed      |-> FALSE,
     relevant     |-> FALSE,
     config_equal |-> FALSE,
     assert_holds |-> TRUE,
     returned     |-> TRUE,
     calls        |-> <<>>,
     created      |-> nm_setting_ip4_config_new,
     found        |-> best_route_null]

\* A call op (arg) on aggregate c that leaves it as `after`.
Call(op, c, arg, after) ==
    /\ cfg' = [cfg EXCEPT ![c] = Stored(after)]
    /\ last' = Report(op, c, arg, after.notified)
    /\ track' = NoTrack

Init ==
    /\ cfg = [c \in Cfgs |-> nm_ip4_config_init]
    /\ last = Report("none", 0, 0, {})
    /\ steps = 0
    /\ track = NoTrack
    /\ plat = nm_platform_setup

\* One more call is made.  None follows a call in which a g_assert failed:
\* the process was aborted there.
Step(bound) ==
    last.assert_holds /\ steps < bound /\ steps' = steps + 1 /\ plat' = plat

AddAddress(c, new) ==
    Call("add_address", c, new, nm_ip4_config_add_address(cfg[c], new))

AddRoute(c, new) ==
    Call("add_route", c, new, nm_ip4_config_add_route(cfg[c], new))

AddNameserver(c, new) ==
    Call("add_nameserver", c, new, nm_ip4_config_add_nameserver(cfg[c], new))

AddDomain(c, domain) ==
    Call("add_domain", c, domain, nm_ip4_config_add_domain(cfg[c], domain))

AddSearch(c, new) ==
    Call("add_search", c, new, nm_ip4_config_add_search(cfg[c], new))

AddNisServer(c, nis) ==
    Call("add_nis_server", c, nis, nm_ip4_config_add_nis_server(cfg[c], nis))

AddWins(c, wins) ==
    Call("add_wins", c, wins, nm_ip4_config_add_wins(cfg[c], wins))

SetGateway(c, gateway) ==
    Call("set_gateway", c, gateway, nm_ip4_config_set_gateway(cfg[c], gateway))

SetNeverDefault(c, never_default) ==
    Call("set_never_default", c, never_default,
         nm_ip4_config_set_never_default(cfg[c], never_default))

SetMss(c, mss) == Call("set_mss", c, mss, nm_ip4_config_set_mss(cfg[c], mss))

SetMtu(c, in) ==
    Call("set_mtu", c, in, nm_ip4_config_set_mtu(cfg[c], in.mtu, in.source))

SetNisDomain(c, domain) ==
    Call("set_nis_domain", c, domain,
         nm_ip4_config_set_nis_domain(cfg[c], domain))

DelAddress(c, i) ==
    Call("del_address", c, i, nm_ip4_config_del_address(cfg[c], i))

DelRoute(c, i) == Call("del_route", c, i, nm_ip4_config_del_route(cfg[c], i))

DelNameserver(c, i) ==
    Call("del_nameserver", c, i, nm_ip4_config_del_nameserver(cfg[c], i))

DelDomain(c, i) ==
    Call("del_domain", c, i, nm_ip4_config_del_domain(cfg[c], i))

DelSearch(c, i) ==
    Call("del_search", c, i, nm_ip4_config_del_search(cfg[c], i))

DelNisServer(c, i) ==
    Call("del_nis_server", c, i, nm_ip4_config_del_nis_server(cfg[c], i))

DelWins(c, i) == Call("del_wins", c, i, nm_ip4_config_del_wins(cfg[c], i))

ResetAddresses(c) ==
    Call("reset_addresses", c, 0, nm_ip4_config_reset_addresses(cfg[c]))

ResetRoutes(c) ==
    Call("reset_routes", c, 0, nm_ip4_config_reset_routes(cfg[c]))

ResetNameservers(c) ==
    Call("reset_nameservers", c, 0, nm_ip4_config_reset_nameservers(cfg[c]))

ResetDomains(c) ==
    Call("reset_domains", c, 0, nm_ip4_config_reset_domains(cfg[c]))

ResetSearches(c) ==
    Call("reset_searches", c, 0, nm_ip4_config_reset_searches(cfg[c]))

ResetNisServers(c) ==
    Call("reset_nis_servers", c, 0, nm_ip4_config_reset_nis_servers(cfg[c]))

ResetWins(c) == Call("reset_wins", c, 0, nm_ip4_config_reset_wins(cfg[c]))

\* config c = nm_ip4_config_capture (...): the aggregate c is a new one, or
\* stays as it is when capture returns NULL.
Capture(c, platform, capture_resolv_conf) ==
    LET r == nm_ip4_config_capture(platform, capture_resolv_conf)
    IN  /\ cfg' = [cfg EXCEPT ![c] = IF r.is_null THEN @
                                     ELSE Stored(r.config)]
        /\ last' = [Report("capture", c, platform,
                           IF r.is_null THEN {} ELSE r.config.notified)
                       EXCEPT !.returned = ~r.is_null]
        /\ track' = NoTrack

MergeTo(d, after) ==
    /\ cfg' = [cfg EXCEPT ![d] = Stored(after)]
    /\ last' = Report("merge", d, 0, after.notified)
    /\ track' = [phase |-> "merged", d |-> d, orig |-> cfg[d],
                 src |-> cfg[Other(d)]]

Merge(d) == MergeTo(d, nm_ip4_config_merge(cfg[d], cfg[Other(d)]))

SubtractTo(d, after) ==
    /\ cfg' = [cfg EXCEPT ![d] = Stored(after)]
    /\ last' = Report("subtract", d, 0, after.notified)
    /\ track' = IF track.phase = "merged" /\ track.d = d
                THEN [track EXCEPT !.phase = "subtracted"]
                ELSE [phase |-> "subtract", d |-> d, orig |-> cfg[d],
                      src |-> cfg[Other(d)]]

Subtract(d) == SubtractTo(d, nm_ip4_config_subtract(cfg[d], cfg[Other(d)]))

ReplaceTo(d, r) ==
    /\ cfg' = [cfg EXCEPT ![d] = Stored(r.config)]
    /\ last' = [Report("replace", d, 0, r.config.notified) EXCEPT
                   !.changed = r.changed,
                   !.relevant = r.relevant,
                   !.config_equal = r.config_equal,
                   !.assert_holds = r.assert_holds]
    /\ track' = [phase |-> "replace", d |-> d, orig |-> cfg[d],
                 src |-> cfg[Other(d)]]

Replace(d) == ReplaceTo(d, nm_ip4_config_replace(cfg[d], cfg[Other(d)]))

\* Every public call, on either aggregate.
Next ==
    \/ \E c \in Cfgs, new \in CoreAddresses :
           Step(MaxSteps) /\ AddAddress(c, new)
    \/ \E c \in Cfgs, new \in CoreRoutes : Step(MaxSteps) /\ AddRoute(c, new)
    \/ \E c \in Cfgs, new \in Nameservers :
           Step(MaxSteps) /\ AddNameserver(c, new)
    \/ \E c \in Cfgs, new \in Domains : Step(MaxSteps) /\ AddDomain(c, new)
    \/ \E c \in Cfgs, new \in Domains : Step(MaxSteps) /\ AddSearch(c, new)
    \/ \E c \in Cfgs, new \in Nameservers :
           Step(MaxSteps) /\ AddNisServer(c, new)
    \/ \E c \in Cfgs, new \in Nameservers : Step(MaxSteps) /\ AddWins(c, new)
    \/ \E c \in Cfgs, g \in Gateways : Step(MaxSteps) /\ SetGateway(c, g)
    \/ \E c \in Cfgs : Step(MaxSteps) /\ SetNeverDefault(c, TRUE)
    \/ \E c \in Cfgs : Step(MaxSteps) /\ SetMss(c, 1400)
    \/ \E c \in Cfgs, in \in MtuInputs : Step(MaxSteps) /\ SetMtu(c, in)
    \/ \E c \in Cfgs : Step(MaxSteps) /\ SetNisDomain(c, <<97>>)
    \/ \E c \in Cfgs, i \in DelIndices : Step(MaxSteps) /\ DelAddress(c, i)
    \/ \E c \in Cfgs, i \in DelIndices : Step(MaxSteps) /\ DelRoute(c, i)
    \/ \E c \in Cfgs, i \in DelIndices : Step(MaxSteps) /\ DelNameserver(c, i)
    \/ \E c \in Cfgs, i \in DelIndices : Step(MaxSteps) /\ DelDomain(c, i)
    \/ \E c \in Cfgs, i \in DelIndices : Step(MaxSteps) /\ DelSearch(c, i)
    \/ \E c \in Cfgs, i \in DelIndices : Step(MaxSteps) /\ DelNisServer(c, i)
    \/ \E c \in Cfgs, i \in DelIndices : Step(MaxSteps) /\ DelWins(c, i)
    \/ \E c \in Cfgs : Step(MaxSteps) /\ ResetAddresses(c)
    \/ \E c \in Cfgs : Step(MaxSteps) /\ ResetRoutes(c)
    \/ \E c \in Cfgs : Step(MaxSteps) /\ ResetNameservers(c)
    \/ \E c \in Cfgs : Step(MaxSteps) /\ ResetDomains(c)
    \/ \E c \in Cfgs : Step(MaxSteps) /\ ResetSearches(c)
    \/ \E c \in Cfgs : Step(MaxSteps) /\ ResetNisServers(c)
    \/ \E c \in Cfgs : Step(MaxSteps) /\ ResetWins(c)
    \/ \E c \in Cfgs, p \in Platforms : Step(MaxSteps) /\ Capture(c, p, TRUE)
    \/ \E d \in Cfgs : Step(MaxSteps) /\ Merge(d)
    \/ \E d \in Cfgs : Step(MaxSteps) /\ Subtract(d)
    \/ \E d \in Cfgs : Step(MaxSteps) /\ Replace(d)

Spec == Init /\ [][Next]_vars

\* add_address and add_route on one aggregate that starts empty.
NextAdd ==
    \/ \E new \in AddAddresses : Step(MaxAdds) /\ AddAddress(1, new)
    \/ \E new \in AddRoutes : Step(MaxAdds) /\ AddRoute(1, new)

SpecAdd == Init /\ [][NextAdd]_vars

\* The calls that create or change the route collection.
NextRoutes ==
    \/ \E c \in Cfgs, new \in CoreRoutes :
           Step(MaxRouteSteps) /\ AddRoute(c, new)
    \/ \E c \in Cfgs, p \in Platforms :
           Step(MaxRouteSteps) /\ Capture(c, p, TRUE)
    \/ \E d \in Cfgs : Step(MaxRouteSteps) /\ Merge(d)
    \/ \E d \in Cfgs : Step(MaxRouteSteps) /\ Subtract(d)
    \/ \E d \in Cfgs : Step(MaxRouteSteps) /\ Replace(d)

SpecRoutes == Init /\ [][NextRoutes]_vars

\* Two aggregates are built by at most MaxBuild calls; then one is merged
\* with the other and the other is subtracted from it again.
Building == track.phase = "none" /\ Step(MaxBuild)

NextMergeSubtract ==
    \/ \E c \in Cfgs, new \in CoreAddresses : Building /\ AddAddress(c, new)
    \/ \E c \in Cfgs, new \in CoreRoutes : Building /\ AddRoute(c, new)
    \/ \E c \in Cfgs, new \in Nameservers : Building /\ AddNameserver(c, new)
    \/ \E c \in Cfgs : Building /\ AddDomain(c, <<97>>)
    \/ \E c \in Cfgs : Building /\ AddSearch(c, <<97>>)
    \/ \E c \in Cfgs : Building /\ AddNisServer(c, 5)
    \/ \E c \in Cfgs : Building /\ AddWins(c, 5)
    \/ \E c \in Cfgs, g \in Gateways : Building /\ SetGateway(c, g)
    \/ \E c \in Cfgs : Building /\ SetMss(c, 1400)
    \/ \E c \in Cfgs, in \in MtuInputs : Building /\ SetMtu(c, in)
    \/ \E c \in Cfgs, domain \in Domains : Building /\ SetNisDomain(c, domain)
    \/ \E c \in Cfgs, p \in Platforms : Building /\ Capture(c, p, FALSE)
    \/ \E d \in Cfgs :
           track.phase = "none" /\ UNCHANGED <<steps, plat>> /\ Merge(d)
    \/ \E d \in Cfgs :
           track.phase = "merged" /\ track.d = d /\ UNCHANGED <<steps, plat>>
               /\ Subtract(d)

SpecMergeSubtract == Init /\ [][NextMergeSubtract]_vars

\* The aggregate is passed as const and only read.
Commit(c, ifindex, default_route_metric, platform, shift32) ==
    LET r == nm_ip4_config_commit(cfg[c], ifindex, default_route_metric,
                                  platform, shift32)
    IN  /\ cfg' = cfg
        /\ last' = [Report("commit", c,
                           [ifindex |-> ifindex,
                            default_route_metric |-> default_route_metric,
                            platform |-> platform, shift32 |-> shift32], {})
                       EXCEPT !.returned = r.returned, !.calls = r.calls]
        /\ track' = NoTrack

\* Aggregates are captured from the platform, one call after the other.
NextCapture ==
    \E c \in Cfgs, p \in CapturePlatforms, capture_resolv_conf \in BOOLEAN :
        Step(MaxCaptures) /\ Capture(c, p, capture_resolv_conf)

SpecCapture == Init /\ [][NextCapture]_vars

\* capture alone, of links with host routes.
NextHostRoutes ==
    \E c \in Cfgs, p \in HostRoutePlatforms :
        Step(MaxHostRouteCaptures) /\ Capture(c, p, TRUE)

SpecHostRoutes == Init /\ [][NextHostRoutes]_vars

\* One aggregate is built and committed to link 1, or to the invalid link 0.
NextCommit ==
    \/ \E new \in CommitAddresses :
           Step(MaxCommitSteps) /\ AddAddress(1, new)
    \/ \E new \in CommitRoutes : Step(MaxCommitSteps) /\ AddRoute(1, new)
    \/ \E in \in MtuInputs : Step(MaxCommitSteps) /\ SetMtu(1, in)
    \/ \E ifindex \in {0, 1}, platform \in CommitPlatforms,
          shift32 \in Shift32Outcomes :
           Step(MaxCommitSteps) /\ Commit(1, ifindex, 100, platform, shift32)

SpecCommit == Init /\ [][NextCommit]_vars

NextSources ==
    \/ \E c \in Cfgs, new \in SourceAddresses :
           Step(MaxSourceSteps) /\ AddAddress(c, new)
    \/ \E c \in Cfgs, new \in SourceRoutes :
           Step(MaxSourceSteps) /\ AddRoute(c, new)
    \/ \E d \in Cfgs : Step(MaxSourceSteps) /\ Merge(d)

SpecSources == Init /\ [][NextSources]_vars

NextAddresses ==
    \E new \in LifetimeAddresses : Step(MaxAddressSteps) /\ AddAddress(1, new)

SpecAddresses == Init /\ [][NextAddresses]_vars

MergeSetting(c, setting, default_route_metric, uninitialized) ==
    LET after == nm_ip4_config_merge_setting(cfg[c], setting,
                                             default_route_metric,
                                             uninitialized)
    IN  /\ cfg' = [cfg EXCEPT ![c] = Stored(after)]
        /\ last' = [Report("merge_setting", c,
                           [setting |-> setting,
                            default_route_metric |-> default_route_metric,
                            uninitialized |-> uninitialized],
                           after.notified)
                       EXCEPT !.assert_holds =
                                  ~merge_setting_assert_fails(setting)]
        /\ track' = NoTrack

\* An aggregate is given a gateway and nameservers, and settings are merged
\* into it.
NextSetting ==
    \/ \E g \in Gateways : Step(MaxSettingSteps) /\ SetGateway(1, g)
    \/ \E new \in Nameservers : Step(MaxSettingSteps) /\ AddNameserver(1, new)
    \/ \E setting \in Settings, uninitialized \in Uninitialized :
           Step(MaxSettingSteps)
               /\ MergeSetting(1, setting, 100, uninitialized)

SpecSetting == Init /\ [][NextSetting]_vars

\* The calls that touch the nameserver, domain, search, NIS and WINS lists.
NextLists ==
    \/ \E c \in Cfgs, new \in Nameservers :
           Step(MaxListSteps) /\ AddNameserver(c, new)
    \/ \E c \in Cfgs, new \in Domains : Step(MaxListSteps) /\ AddDomain(c, new)
    \/ \E c \in Cfgs, new \in Domains : Step(MaxListSteps) /\ AddSearch(c, new)
    \/ \E c \in Cfgs, new \in Nameservers :
           Step(MaxListSteps) /\ AddNisServer(c, new)
    \/ \E c \in Cfgs, new \in Nameservers :
           Step(MaxListSteps) /\ AddWins(c, new)
    \/ \E c \in Cfgs, p \in ListPlatforms :
           Step(MaxListSteps) /\ Capture(c, p, TRUE)
    \/ \E d \in Cfgs : Step(MaxListSteps) /\ Merge(d)
    \/ \E d \in Cfgs : Step(MaxListSteps) /\ Subtract(d)
    \/ \E d \in Cfgs : Step(MaxListSteps) /\ Replace(d)

SpecLists == Init /\ [][NextLists]_vars

\* The aggregate is passed as const and only read; a NULL config is passed
\* as such.
CreateSetting(c, config_is_null) ==
    /\ cfg' = cfg
    /\ last' = [Report("create_setting", c, config_is_null, {}) EXCEPT
                   !.created =
                       nm_ip4_config_create_setting(config_is_null, cfg[c])]
    /\ track' = NoTrack

\* An aggregate is built and a setting is created from it.
NextCreate ==
    \/ \E new \in CreateAddresses : Step(MaxCreateSteps) /\ AddAddress(1, new)
    \/ \E new \in CreateRoutes : Step(MaxCreateSteps) /\ AddRoute(1, new)
    \/ \E g \in CreateGateways : Step(MaxCreateSteps) /\ SetGateway(1, g)
    \/ \E new \in Nameservers : Step(MaxCreateSteps) /\ AddNameserver(1, new)
    \/ Step(MaxCreateSteps) /\ AddSearch(1, <<97>>)
    \/ \E config_is_null \in BOOLEAN :
           Step(MaxCreateSteps) /\ CreateSetting(1, config_is_null)

SpecCreate == Init /\ [][NextCreate]_vars

\* The aggregate is passed as const and only read.
GetDirectRouteForHost(c, host) ==
    /\ cfg' = cfg
    /\ last' = [Report("get_direct_route_for_host", c, host, {}) EXCEPT
                   !.found =
                       nm_ip4_config_get_direct_route_for_host(cfg[c], host)]
    /\ track' = NoTrack

\* Routes are added to an aggregate and the direct route to a host is
\* looked up.
NextDirect ==
    \/ \E new \in DirectRoutes : Step(MaxDirectSteps) /\ AddRoute(1, new)
    \/ \E host \in DirectHosts :
           Step(MaxDirectSteps) /\ GetDirectRouteForHost(1, host)

SpecDirect == Init /\ [][NextDirect]_vars

\* Two aggregates get scalars and addresses, and are merged, subtracted and
\* replaced with each other.
NextScalars ==
    \/ \E c \in Cfgs, g \in ScalarGateways :
           Step(MaxScalarSteps) /\ SetGateway(c, g)
    \/ \E c \in Cfgs, mss \in ScalarMsses :
           Step(MaxScalarSteps) /\ SetMss(c, mss)
    \/ \E c \in Cfgs, in \in ScalarMtus :
           Step(MaxScalarSteps) /\ SetMtu(c, in)
    \/ \E c \in Cfgs, domain \in ScalarNisDomains :
           Step(MaxScalarSteps) /\ SetNisDomain(c, domain)
    \/ \E c \in Cfgs, new \in ScalarAddresses :
           Step(MaxScalarSteps) /\ AddAddress(c, new)
    \/ \E d \in Cfgs : Step(MaxScalarSteps) /\ Merge(d)
    \/ \E d \in Cfgs : Step(MaxScalarSteps) /\ Subtract(d)
    \/ \E d \in Cfgs : Step(MaxScalarSteps) /\ Replace(d)

SpecScalars == Init /\ [][NextScalars]_vars

\* Two aggregates get addresses and routes, and one replaces the other.
NextReplace ==
    \/ \E c \in Cfgs, new \in ReplaceAddresses :
           Step(MaxReplaceSteps) /\ AddAddress(c, new)
    \/ \E c \in Cfgs, new \in ReplaceRoutes :
           Step(MaxReplaceSteps) /\ AddRoute(c, new)
    \/ \E d \in Cfgs : Step(MaxReplaceSteps) /\ Replace(d)

SpecReplace == Init /\ [][NextReplace]_vars

PlatformStep ==
    /\ steps < MaxPlatformSteps
    /\ steps' = steps + 1
    /\ UNCHANGED <<cfg, last, track>>

PlatformCall(o, op) == plat' = nm_platform_call(plat, o, op)

PlatformQuery(o) == plat' = nm_platform_query(plat, o)

\* Another process changes the object in the kernel.
ExternalChange(o, op) ==
    /\ kernel_accepts(plat.kernel[o], op)
    /\ kernel_effect(plat.kernel[o], op) # plat.kernel[o]
    /\ plat' = [kernel_change(plat, o, op) EXCEPT
                    !.call = PlatformReturn("external", o, op, 0, TRUE, <<>>)]

EventNotification ==
    /\ plat.queue # <<>>
    /\ plat' = event_notification(plat)
    /\ UNCHANGED <<cfg, last, steps, track>>

\* Calls of this process, changes made by others and the reading of the
\* kernel's notifications, in any order.
NextPlatform ==
    \/ \E c \in PlatformCalls : PlatformStep /\ PlatformCall(c.object, c.op)
    \/ \E o \in PlatformObjects : PlatformStep /\ PlatformQuery(o)
    \/ \E c \in PlatformCalls : PlatformStep /\ ExternalChange(c.object, c.op)
    \/ EventNotification

SpecPlatform == Init /\ [][NextPlatform]_vars

(***************************************************************************)
(* Properties.                                                             *)
(***************************************************************************)
\* The fields of an aggregate that its accessors read.
Fields ==
    {"never_default", "gateway", "addresses", "routes", "nameservers",
     "domains", "searches", "mss", "nis", "nis_domain", "wins", "mtu"}

Content(config) == [f \in Fields |-> config[f]]

UniqueAddresses(config) ==
    \A i, j \in 1..Len(config.addresses) :
        i # j => ~(/\ config.addresses[i].address = config.addresses[j].address
                   /\ config.addresses[i].plen = config.addresses[j].plen)

UniqueRoutes(config) ==
    \A i, j \in 1..Len(config.routes) :
        i # j => ~(/\ config.routes[i].network = config.routes[j].network
                   /\ config.routes[i].plen = config.routes[j].plen)

HasAddress(config, address, plen) ==
    \E i \in 1..Len(config.addresses) :
        /\ config.addresses[i].address = address
        /\ config.addresses[i].plen = plen

\* C1: in every replace (dst, src) the g_assert at its end holds, and
\* equal (dst, src) as evaluated on entry was TRUE if and only if replace
\* reported no relevant change.
C1_EqualIffNoRelevantChange ==
    last.op = "replace"
        => (last.assert_holds /\ (last.config_equal <=> ~last.relevant))

\* C2: after any sequence of add_address and add_route calls on an aggregate
\* that starts empty, no two stored addresses share (address, plen) and no
\* two stored routes share (network, plen).
C2_AddKeepsIdentityUnique == UniqueAddresses(cfg[1]) /\ UniqueRoutes(cfg[1])

\* An add_address that met a stored entry of the same address and a higher
\* source, overwrote it and kept that source, next to a stored route.
C2_Witness ==
    /\ last.op = "add_address"
    /\ last.notified # {}
    /\ Len(cfg[1].routes) > 0
    /\ \E i \in 1..Len(cfg[1].addresses) :
           /\ cfg[1].addresses[i].address = last.arg.address
           /\ cfg[1].addresses[i].source > last.arg.source

\* C3: in every reachable state, also after a capture from a platform that
\* holds several routes to one network and prefix, no aggregate has two
\* addresses sharing (address, plen) or two routes sharing (network, plen).
C3_IdentityUniqueEverywhere ==
    \A c \in Cfgs : UniqueAddresses(cfg[c]) /\ UniqueRoutes(cfg[c])

\* C4: no aggregate, created empty or by capture and changed by add_route,
\* merge, replace and subtract, stores a route with prefix length 0.
C4_NoDefaultRouteStored ==
    \A c \in Cfgs : \A i \in 1..Len(cfg[c].routes) : cfg[c].routes[i].plen # 0

\* add_route was handed a default route on an aggregate whose gateway came
\* from a captured default route.
C4_Witness ==
    /\ last.op = "add_route"
    /\ last.arg.plen = 0
    /\ cfg[last.c].gateway # 0
    /\ Len(cfg[last.c].routes) > 0

\* C5: a second add_address with the same record directly after the first,
\* on the same aggregate, leaves the address collection as the first call
\* left it and notifies nothing.
C5_AddAddressIdempotent ==
    [][(/\ last.op = "add_address"
        /\ last'.op = "add_address"
        /\ last'.c = last.c
        /\ last'.arg = last.arg)
       => (/\ cfg'[last.c].addresses = cfg[last.c].addresses
           /\ last'.notified = {})]_vars

\* C6: add_address with address X and prefix p2 on an aggregate that stores
\* X with another prefix p1 leaves both X/p1 and X/p2 stored.
C6_AddressIdentityIncludesPrefix ==
    [][last'.op = "add_address"
       => \A i \in 1..Len(cfg[last'.c].addresses) :
              (/\ cfg[last'.c].addresses[i].address = last'.arg.address
               /\ cfg[last'.c].addresses[i].plen # last'.arg.plen)
              => (/\ HasAddress(cfg'[last'.c], last'.arg.address,
                                cfg[last'.c].addresses[i].plen)
                  /\ HasAddress(cfg'[last'.c], last'.arg.address,
                                last'.arg.plen))]_vars

\* C7: after replace (dst, src), dst holds the same content as src in every
\* field.
C7_ReplaceCopiesEveryField ==
    last.op = "replace"
        => Content(cfg[last.c]) = Content(cfg[Other(last.c)])

\* dst and src agree in every field but the addresses, whose lists hold the
\* same (address, plen) position by position and differ somewhere.
MetadataOnlyDifference(dst, src) ==
    /\ [Content(dst) EXCEPT !["addresses"] = <<>>]
           = [Content(src) EXCEPT !["addresses"] = <<>>]
    /\ Len(dst.addresses) = Len(src.addresses)
    /\ \A i \in 1..Len(dst.addresses) :
           /\ dst.addresses[i].address = src.addresses[i].address
           /\ dst.addresses[i].plen = src.addresses[i].plen
    /\ dst.addresses # src.addresses

\* C8: when dst and src differ only in the metadata of their addresses,
\* replace (dst, src) returns TRUE, reports no relevant change and leaves
\* dst's address entries with src's metadata.
C8_MetadataOnlyReplace ==
    [][(/\ last'.op = "replace"
        /\ last'.assert_holds
        /\ MetadataOnlyDifference(cfg[last'.c], cfg[Other(last'.c)]))
       => (/\ last'.changed
           /\ ~last'.relevant
           /\ cfg'[last'.c].addresses = cfg[Other(last'.c)].addresses)]_vars

\* C9: a replace that returns, returns TRUE if and only if some field of
\* dst differs from its value before the call.
C9_ReplaceReturnsWhetherChanged ==
    [][(last'.op = "replace" /\ last'.assert_holds)
       => (last'.changed
           <=> Content(cfg'[last'.c]) # Content(cfg[last'.c]))]_vars

\* a and b are set to different values, or one of them is not set.
DisjointScalar(a, b) == a = 0 \/ b = 0 \/ a # b

DisjointScalars(A, B) ==
    /\ DisjointScalar(A.gateway, B.gateway)
    /\ DisjointScalar(A.mtu, B.mtu)
    /\ DisjointScalar(A.mss, B.mss)

\* A and B hold no entry that merge would take for the same.
DisjointCollections(A, B) ==
    /\ \A i \in 1..Len(A.addresses) : \A j \in 1..Len(B.addresses) :
           A.addresses[i].address # B.addresses[j].address
    /\ \A i \in 1..Len(A.routes) : \A j \in 1..Len(B.routes) :
           ~(/\ A.routes[i].network = B.routes[j].network
             /\ A.routes[i].plen = B.routes[j].plen)
    /\ Range(A.nameservers) \cap Range(B.nameservers) = {}
    /\ Range(A.domains) \cap Range(B.domains) = {}
    /\ Range(A.searches) \cap Range(B.searches) = {}
    /\ Range(A.nis) \cap Range(B.nis) = {}
    /\ Range(A.wins) \cap Range(B.wins) = {}

\* C10, as stated: for A and B with disjoint gateways, MTUs and MSSs,
\* merge (A, B) followed by subtract (A, B) leaves A equal () to what it was.
C10_MergeSubtractCancels ==
    (track.phase = "subtracted" /\ DisjointScalars(track.orig, track.src))
        => nm_ip4_config_equal(cfg[track.d], track.orig)

\* C10, amended: the same, for A and B that moreover share no address, no
\* route (network, plen), no nameserver, domain, search, NIS server or WINS
\* server, are not both given a NIS domain, and where A has an address if it
\* has a gateway.
C10_MergeSubtractCancelsDisjoint ==
    (/\ track.phase = "subtracted"
     /\ DisjointScalars(track.orig, track.src)
     /\ DisjointCollections(track.orig, track.src)
     /\ (track.orig.nis_domain = NULL \/ track.src.nis_domain = NULL)
     /\ (track.orig.gateway = 0 \/ Len(track.orig.addresses) > 0))
        => nm_ip4_config_equal(cfg[track.d], track.orig)

\* A with an address and a gateway, B with an address of its own, merged
\* and subtracted.
C10_Witness ==
    /\ track.phase = "subtracted"
    /\ DisjointScalars(track.orig, track.src)
    /\ DisjointCollections(track.orig, track.src)
    /\ (track.orig.nis_domain = NULL \/ track.src.nis_domain = NULL)
    /\ track.orig.gateway # 0
    /\ Len(track.orig.addresses) > 0
    /\ Len(track.src.addresses) > 0

\* The default routes of a platform route list.
DefaultRoutes(routes) ==
    {routes[k] : k \in {j \in 1..Len(routes) : routes[j].plen = 0}}

\* The gateways of the default routes of lowest metric.
LowestMetricGateways(routes) ==
    {r.gateway : r \in {d \in DefaultRoutes(routes) :
                           \A e \in DefaultRoutes(routes) :
                               ~guint32_lt(e.metric, d.metric)}}

\* C11: an aggregate captured from a link that has default routes, of
\* whatever number and metrics, has the gateway of a default route of lowest
\* metric and stores no default route.
C11_CaptureTakesLowestMetricGateway ==
    (last.op = "capture" /\ last.returned
         /\ DefaultRoutes(last.arg.routes) # {})
        => (/\ cfg[last.c].gateway \in LowestMetricGateways(last.arg.routes)
            /\ \A i \in 1..Len(cfg[last.c].routes) :
                   cfg[last.c].routes[i].plen # 0)

\* Bit i (1..32) of an address, counted from the front of its dotted form.
Bit(address, i) ==
    (Byte(address, (i - 1) \div 8) \div (2 ^ (7 - ((i - 1) % 8)))) % 2

InSubnet(network, address, plen) ==
    \A i \in 1..plen : Bit(network, i) = Bit(address, i)

\* The destination of the route lies within the subnet of one of the
\* aggregate's addresses.
Covered(config, route) ==
    \E i \in 1..Len(config.addresses) :
        /\ config.addresses[i].plen <= route.plen
        /\ InSubnet(route.network, config.addresses[i].address,
                    config.addresses[i].plen)

NotCovered(config) ==
    LET Keep(route) == ~Covered(config, route)
    IN  SelectSeq(config.routes, Keep)

Committed == last.op = "commit" /\ last.arg.ifindex > 0

\* C12 as stated: commit hands the platform route sync exactly the routes
\* that no address of the aggregate covers, in stored order.
C12_CommitFiltersEveryCoveredRoute ==
    Committed
        => (/\ last.calls[2].fn = "nm_platform_ip4_route_sync"
            /\ last.calls[2].routes = NotCovered(cfg[last.c]))

MtuCalls(calls) ==
    {k \in 1..Len(calls) :
         calls[k].fn \in {"nm_platform_link_get_mtu",
                          "nm_platform_link_set_mtu"}}

\* C13: a commit to a link index above 0 returns FALSE exactly when the
\* platform route sync fails, whatever the address sync returned; after a
\* failed route sync it neither queries nor sets the MTU; the aggregate is
\* the same after the call as before.
C13_CommitFailsIffRouteSyncFails ==
    [][(last'.op = "commit" /\ last'.arg.ifindex > 0)
           => (/\ last'.returned = last'.arg.platform.route_sync
               /\ (~last'.arg.platform.route_sync
                       => MtuCalls(last'.calls) = {})
               /\ Len(last'.calls) >= 2
               /\ last'.calls[1].fn = "nm_platform_ip4_address_sync"
               /\ cfg' = cfg)]_vars

C13_Witness ==
    /\ Committed
    /\ ~last.arg.platform.route_sync
    /\ last.arg.platform.address_sync
    /\ cfg[last.c].mtu # 0
    /\ cfg[last.c].mtu # last.arg.platform.link_mtu
    /\ ~last.returned
    /\ Len(last.calls) = 2

call_took_effect(state, op) ==
    CASE op = "add" -> state.exists
      [] op = "delete" -> ~state.exists
      [] op = "set_up" -> state.exists /\ state.up
      [] op = "set_down" -> state.exists /\ ~state.up
      [] op = "set_arp" -> state.exists /\ state.arp
      [] op = "set_noarp" -> state.exists /\ ~state.arp

\* C14: when a mutating platform call returns success, the change is in
\* the kernel, a query issued right after the return shows it, and the
\* added, changed or removed signal of the object's type that matches the
\* call has been delivered, carrying the changed object, within the call.
C14_ChangeVisibleAndSignalledOnReturn ==
    [][(plat'.call.kind = "call" /\ plat'.call.returned)
           => (/\ call_took_effect(plat'.kernel[plat'.call.object],
                                   plat'.call.op)
               /\ call_took_effect(
                      nm_platform_query(plat', plat'.call.object)
                          .call.shown[1].state,
                      plat'.call.op)
               /\ \E k \in 1..Len(plat'.call.shown) :
                      /\ plat'.call.shown[k].object = plat'.call.object
                      /\ plat'.call.shown[k].kind
                             = signal_of_call(plat'.call.op)
                      /\ call_took_effect(plat'.call.shown[k].state,
                                          plat'.call.op))]_vars

\* A successful call made while notifications of earlier changes to the
\* same object were still unread.
C14_Witness ==
    /\ plat.call.kind = "call"
    /\ plat.call.returned
    /\ \E k \in 1..Len(plat.queue) :
           /\ plat.queue[k].object = plat.call.object
           /\ plat.queue[k].ver < plat.kver[plat.call.object]

\* C15: whatever the order of this process's calls, the changes made by
\* others and the reading of notifications, the state of an object shown
\* by a query or carried by a signal is never older than a state of that
\* object shown before.
C15_ShownStateNeverOlder ==
    [][\A k \in 1..Len(plat'.call.shown) :
           plat' # plat
               => plat'.call.shown[k].ver
                      >= plat.observed[plat'.call.shown[k].object]]_vars

\* A notification was read whose change is
\* older than a state of the object already shown.
C15_Witness ==
    /\ plat.call.kind = "event"
    /\ plat.call.ver = 1
    /\ plat.observed[plat.call.object] >= 2

NoDuplicates(list) ==
    \A i, j \in 1..Len(list) : i # j => list[i] # list[j]

ListsUnique(config) ==
    /\ NoDuplicates(config.nameservers)
    /\ NoDuplicates(config.domains)
    /\ NoDuplicates(config.searches)
    /\ NoDuplicates(config.nis)
    /\ NoDuplicates(config.wins)

ListOfAdd(config, op) ==
    CASE op = "add_nameserver" -> config.nameservers
      [] op = "add_domain" -> config.domains
      [] op = "add_search" -> config.searches
      [] op = "add_nis_server" -> config.nis
      [] op = "add_wins" -> config.wins

ListAdds ==
    {"add_nameserver", "add_domain", "add_search", "add_nis_server",
     "add_wins"}

\* C16: in every reachable state the nameserver, domain, search, NIS and
\* WINS lists of an aggregate hold no value twice; an add_* call leaves its
\* list as it is when the value is in it and otherwise appends the value at
\* the end.
C16_ListsHoldNoDuplicates ==
    /\ [](\A c \in Cfgs : ListsUnique(cfg[c]))
    /\ [][last'.op \in ListAdds
              => ListOfAdd(cfg'[last'.c], last'.op)
                     = IF last'.arg \in Range(ListOfAdd(cfg[last'.c],
                                                        last'.op))
                       THEN ListOfAdd(cfg[last'.c], last'.op)
                       ELSE Append(ListOfAdd(cfg[last'.c], last'.op),
                                   last'.arg)]_vars

\* A nameserver was added again to an aggregate that had taken it from
\* resolv.conf or from the other aggregate.
C16_Witness ==
    /\ last.op = "add_nameserver"
    /\ last.arg \in Range(cfg[last.c].nameservers)
    /\ last.notified = {}
    /\ Len(cfg[last.c].nameservers) >= 2

Parses(text) == inet_pton(text).ret = 1

WithoutMalformedDns(setting) ==
    [setting EXCEPT !.dns = SelectSeq(@, Parses)]

\* C17: when merge_setting is handed a gateway text that does not parse,
\* the gateway is left as it was; the DNS texts that do not parse leave the
\* nameserver list as it would be without them.
C17_MalformedTextChangesNothing ==
    [][(last'.op = "merge_setting" /\ last'.arg.setting.pointer # "NULL")
           => (/\ (/\ last'.arg.setting.gateway # NULL
                   /\ ~Parses(last'.arg.setting.gateway))
                      => cfg'[last'.c].gateway = cfg[last'.c].gateway
               /\ cfg'[last'.c].nameservers
                      = nm_ip4_config_merge_setting(
                            cfg[last'.c],
                            WithoutMalformedDns(last'.arg.setting),
                            last'.arg.default_route_metric,
                            last'.arg.uninitialized).nameservers)]_vars

\* The stored entry that add_address (new) collides with.
Collides(config, new) ==
    {i \in 1..Len(config.addresses) :
         /\ config.addresses[i].address = new.address
         /\ config.addresses[i].plen = new.plen
         /\ config.addresses[i] # new}

ExpiresLater(a, b) ==
    IF a.lifetime = NM_PLATFORM_LIFETIME_PERMANENT
    THEN b.lifetime # NM_PLATFORM_LIFETIME_PERMANENT
    ELSE /\ b.lifetime # NM_PLATFORM_LIFETIME_PERMANENT
         /\ a.timestamp + a.lifetime > b.timestamp + b.lifetime

Lifetimes(a) == <<a.timestamp, a.lifetime, a.preferred>>

\* C18: when add_address (new) meets a stored entry old of the same address
\* and prefix length that differs from new, the stored timestamp, lifetime
\* and preferred lifetime afterwards are old's if new comes from the kernel
\* and old does not, or if old expires strictly later than new, and new's
\* otherwise; address, prefix length and label are new's.
C18_CollisionKeepsLaterLifetime ==
    [][last'.op = "add_address"
           => \A i \in Collides(cfg[last'.c], last'.arg) :
                  /\ Lifetimes(cfg'[last'.c].addresses[i])
                         = IF \/ (/\ last'.arg.source
                                         = NM_IP_CONFIG_SOURCE_KERNEL
                                  /\ cfg[last'.c].addresses[i].source
                                         # NM_IP_CONFIG_SOURCE_KERNEL)
                              \/ ExpiresLater(cfg[last'.c].addresses[i],
                                              last'.arg)
                           THEN Lifetimes(cfg[last'.c].addresses[i])
                           ELSE Lifetimes(last'.arg)
                  /\ cfg'[last'.c].addresses[i].address = last'.arg.address
                  /\ cfg'[last'.c].addresses[i].plen = last'.arg.plen
                  /\ cfg'[last'.c].addresses[i].label = last'.arg.label]_vars

\* A user's record met a stored one that expires later: the stored
\* lifetime was kept and the label taken from the new record.
C18_Witness ==
    /\ last.op = "add_address"
    /\ last.notified # {}
    /\ last.arg.source = NM_IP_CONFIG_SOURCE_USER
    /\ last.arg.label = <<97>>
    /\ \E i \in 1..Len(cfg[last.c].addresses) :
           /\ cfg[last.c].addresses[i].address = last.arg.address
           /\ cfg[last.c].addresses[i].plen = last.arg.plen
           /\ cfg[last.c].addresses[i].label = <<97>>
           /\ cfg[last.c].addresses[i].lifetime = 100
           /\ last.arg.lifetime = 200

SameAddress(a, b) == a.address = b.address /\ a.plen = b.plen

SameRoute(a, b) == a.network = b.network /\ a.plen = b.plen

HigherSource(a, b) == IF a.source > b.source THEN a.source ELSE b.source

\* C19: when add_address or add_route meets a stored entry of the same
\* identity, the stored source becomes the higher of the stored and the new
\* one, and a route's other fields become the new route's; over add_address,
\* add_route and merge the source stored for an entry never goes down while
\* the entry stays.
C19_SourceNeverDecreases ==
    [][last'.op \in {"add_address", "add_route", "merge"}
           => (/\ \A i \in 1..Len(cfg[last'.c].addresses),
                     j \in 1..Len(cfg'[last'.c].addresses) :
                      SameAddress(cfg[last'.c].addresses[i],
                                  cfg'[last'.c].addresses[j])
                          => cfg'[last'.c].addresses[j].source
                                 >= cfg[last'.c].addresses[i].source
               /\ \A i \in 1..Len(cfg[last'.c].routes),
                     j \in 1..Len(cfg'[last'.c].routes) :
                      SameRoute(cfg[last'.c].routes[i],
                                cfg'[last'.c].routes[j])
                          => cfg'[last'.c].routes[j].source
                                 >= cfg[last'.c].routes[i].source
               /\ last'.op = "add_address"
                      => \A i \in 1..Len(cfg[last'.c].addresses) :
                             SameAddress(cfg[last'.c].addresses[i], last'.arg)
                                 => cfg'[last'.c].addresses[i].source
                                        = HigherSource(
                                              cfg[last'.c].addresses[i],
                                              last'.arg)
               /\ last'.op = "add_route"
                      => \A i \in 1..Len(cfg[last'.c].routes) :
                             SameRoute(cfg[last'.c].routes[i], last'.arg)
                                 => cfg'[last'.c].routes[i]
                                        = [last'.arg EXCEPT !.source =
                                               HigherSource(
                                                   cfg[last'.c].routes[i],
                                                   last'.arg)])]_vars

\* A route of a lower source overwrote a stored route: the gateway is the
\* new one, the source the stored one.
C19_Witness ==
    /\ last.op = "add_route"
    /\ last.notified # {}
    /\ \E i \in 1..Len(cfg[last.c].routes) :
           /\ SameRoute(cfg[last.c].routes[i], last.arg)
           /\ cfg[last.c].routes[i].gateway = last.arg.gateway
           /\ cfg[last.c].routes[i].source > last.arg.source

\* C20: add_route of a route with prefix length 0 returns at its
\* precondition: the routes and every other field of the aggregate are as
\* before and no notification is emitted.
C20_DefaultRouteRejected ==
    [][(last'.op = "add_route" /\ last'.arg.plen = 0)
           => (cfg' = cfg /\ last'.notified = {})]_vars

\* A default route was handed to an aggregate that holds a route and an
\* address.
C20_Witness ==
    /\ last.op = "add_route"
    /\ last.arg.plen = 0
    /\ last.arg.gateway = 3
    /\ Len(cfg[last.c].routes) = 1
    /\ Len(cfg[last.c].addresses) = 1

(***************************************************************************)
(* Merge as a union.                                                       *)
(***************************************************************************)
\* The identities an aggregate holds: (address, plen) of its addresses and
\* (network, plen) of its routes.
AddressIdentities(config) ==
    {<<config.addresses[k].address, config.addresses[k].plen>> :
        k \in 1..Len(config.addresses)}

RouteIdentities(config) ==
    {<<config.routes[k].network, config.routes[k].plen>> :
        k \in 1..Len(config.routes)}

\* Every identity and every list entry of `part` is in `whole`.
HoldsAllOf(whole, part) ==
    /\ AddressIdentities(part) \subseteq AddressIdentities(whole)
    /\ RouteIdentities(part) \subseteq RouteIdentities(whole)
    /\ Range(part.nameservers) \subseteq Range(whole.nameservers)
    /\ Range(part.domains) \subseteq Range(whole.domains)
    /\ Range(part.searches) \subseteq Range(whole.searches)
    /\ Range(part.nis) \subseteq Range(whole.nis)
    /\ Range(part.wins) \subseteq Range(whole.wins)

\* C21: after merge (dst, src) every address identity (address, plen), route
\* identity (network, plen), nameserver, domain, search, NIS server and WINS
\* server that dst held before the call is still in dst, and every one of
\* src is in dst as well.
C21_MergeIsAdditiveUnion ==
    track.phase = "merged"
        => /\ HoldsAllOf(cfg[track.d], track.orig)
           /\ HoldsAllOf(cfg[track.d], track.src)

(***************************************************************************)
(* Merge and the scalar fields.                                            *)
(***************************************************************************)
\* merge left the field as it was, or dst's value was zero and the field
\* now holds src's.
KeptOrCopiedIfZero(before, from, after) ==
    \/ after = before
    \/ before = 0 /\ after = from

\* C22, as stated: merge (dst, src) copies gateway, mss, mtu and nis_domain
\* from src into dst only if dst's value is zero or empty before the call;
\* a gateway, mss, mtu or nis_domain that dst has is left unchanged.
C22_MergeCopiesScalarsOnlyIfUnset ==
    track.phase = "merged"
        => /\ KeptOrCopiedIfZero(track.orig.gateway, track.src.gateway,
                                 cfg[track.d].gateway)
           /\ KeptOrCopiedIfZero(track.orig.mss, track.src.mss,
                                 cfg[track.d].mss)
           /\ KeptOrCopiedIfZero(track.orig.mtu, track.src.mtu,
                                 cfg[track.d].mtu)
           /\ \/ cfg[track.d].nis_domain = track.orig.nis_domain
              \/ /\ track.orig.nis_domain \in {NULL, <<>>}
                 /\ cfg[track.d].nis_domain = track.src.nis_domain

\* C22, amended: gateway, mss and mtu are copied from src only if dst's
\* value is zero, and are otherwise unchanged; nis_domain becomes src's
\* whenever src has one (is not NULL), whatever dst holds, and is unchanged
\* when src has none.
C22_MergeCopiesNisDomainAlways ==
    track.phase = "merged"
        => /\ KeptOrCopiedIfZero(track.orig.gateway, track.src.gateway,
                                 cfg[track.d].gateway)
           /\ KeptOrCopiedIfZero(track.orig.mss, track.src.mss,
                                 cfg[track.d].mss)
           /\ KeptOrCopiedIfZero(track.orig.mtu, track.src.mtu,
                                 cfg[track.d].mtu)
           /\ cfg[track.d].nis_domain =
                  IF track.src.nis_domain # NULL THEN track.src.nis_domain
                  ELSE track.orig.nis_domain

\* dst had an MSS that src had not, and both had a NIS domain, each
\* different from the other's, when they were merged.
C22_Witness ==
    /\ track.phase = "merged"
    /\ track.orig.mss # 0
    /\ track.orig.mss # track.src.mss
    /\ track.orig.nis_domain \notin {NULL, <<>>}
    /\ track.src.nis_domain \notin {NULL, <<>>}
    /\ track.orig.nis_domain # track.src.nis_domain

(***************************************************************************)
(* Subtract as a difference.                                               *)
(***************************************************************************)
\* The entries of dst's lists that match nothing in src, in dst's order.
AddressesNotIn(dst, src) ==
    LET Unmatched(a) == <<a.address, a.plen>> \notin AddressIdentities(src)
    IN  SelectSeq(dst.addresses, Unmatched)

RoutesNotIn(dst, src) ==
    LET Unmatched(r) == <<r.network, r.plen>> \notin RouteIdentities(src)
    IN  SelectSeq(dst.routes, Unmatched)

ValuesNotIn(list, values) ==
    LET Unmatched(v) == v \notin Range(values)
    IN  SelectSeq(list, Unmatched)

\* after holds of dst exactly what matches nothing in src.
IsDifference(after, dst, src) ==
    /\ after.addresses = AddressesNotIn(dst, src)
    /\ after.routes = RoutesNotIn(dst, src)
    /\ after.nameservers = ValuesNotIn(dst.nameservers, src.nameservers)
    /\ after.domains = ValuesNotIn(dst.domains, src.domains)
    /\ after.searches = ValuesNotIn(dst.searches, src.searches)
    /\ after.nis = ValuesNotIn(dst.nis, src.nis)
    /\ after.wins = ValuesNotIn(dst.wins, src.wins)

\* C23: after subtract (dst, src), dst holds no address whose
\* (address, plen) matches an address of src, no route whose (network, plen)
\* matches a route of src and no nameserver, domain, search, NIS server or
\* WINS server equal to one of src, and the entries that match nothing in
\* src are kept in their order, for every dst the calls can produce.
C23_SubtractIsDifference ==
    [][last'.op = "subtract"
           => IsDifference(cfg'[last'.c], cfg[last'.c],
                           cfg[Other(last'.c)])]_vars

(***************************************************************************)
(* Subtract and the scalar fields.                                         *)
(***************************************************************************)
\* The field is reset (to `unset`) if dst's value equalled src's, and is
\* unchanged otherwise.
ResetIfEqual(before, from, after, unset) ==
    after = IF before = from THEN unset ELSE before

\* C24: subtract (dst, src) resets each scalar of dst that equals src's:
\* afterwards gateway, mss and mtu are 0 if they equalled src's (the mtu
\* whatever source dst's mtu had been set with) and nis_domain is empty if
\* it equalled src's; scalars that differ from src's are unchanged.
C24_SubtractResetsEqualScalars ==
    [][last'.op = "subtract"
           => (/\ ResetIfEqual(cfg[last'.c].gateway,
                               cfg[Other(last'.c)].gateway,
                               cfg'[last'.c].gateway, 0)
               /\ ResetIfEqual(cfg[last'.c].mss, cfg[Other(last'.c)].mss,
                               cfg'[last'.c].mss, 0)
               /\ ResetIfEqual(cfg[last'.c].mtu, cfg[Other(last'.c)].mtu,
                               cfg'[last'.c].mtu, 0)
               /\ ResetIfEqual(cfg[last'.c].nis_domain,
                               cfg[Other(last'.c)].nis_domain,
                               cfg'[last'.c].nis_domain, NULL))]_vars

\* C25: after subtract (dst, src) returns with dst holding no address, dst's
\* gateway is 0, whether or not it equalled src's gateway.
C25_NoAddressNoGateway ==
    (last.op = "subtract" /\ Len(cfg[last.c].addresses) = 0)
        => cfg[last.c].gateway = 0

\* dst had a gateway that src had not, and lost its last address to the
\* subtract.
C25_Witness ==
    /\ last.op = "subtract"
    /\ track.phase = "subtract"
    /\ track.orig.gateway # 0
    /\ track.orig.gateway # track.src.gateway
    /\ Len(track.orig.addresses) > 0
    /\ Len(cfg[last.c].addresses) = 0

(***************************************************************************)
(* Replace: which differences of the address and route lists are relevant. *)
(***************************************************************************)
SameCounts(dst, src) ==
    /\ Len(dst.addresses) = Len(src.addresses)
    /\ Len(dst.routes) = Len(src.routes)

\* Every positional pair of addresses has the same (address, plen).
AddressPairsShareIdentity(dst, src) ==
    \A k \in 1..Len(src.addresses) :
        /\ dst.addresses[k].address = src.addresses[k].address
        /\ dst.addresses[k].plen = src.addresses[k].plen

\* Every positional pair of routes has the same (network, plen).
RoutePairsShareIdentity(dst, src) ==
    \A k \in 1..Len(src.routes) :
        /\ dst.routes[k].network = src.routes[k].network
        /\ dst.routes[k].plen = src.routes[k].plen

\* Every positional pair of routes has the same gateway and metric.
RoutePairsShareGatewayAndMetric(dst, src) ==
    \A k \in 1..Len(src.routes) :
        /\ dst.routes[k].gateway = src.routes[k].gateway
        /\ dst.routes[k].metric = src.routes[k].metric

\* No field other than the two lists makes the change relevant.
OtherFieldsAgree(dst, src) ==
    /\ dst.gateway = src.gateway
    /\ dst.nameservers = src.nameservers
    /\ dst.domains = src.domains
    /\ dst.searches = src.searches
    /\ dst.nis = src.nis
    /\ dst.nis_domain = src.nis_domain
    /\ dst.wins = src.wins

\* C26, as stated: in replace, for the address and the route list, a
\* difference in count is relevant; with equal counts a positional pair that
\* differs in identity, (address, plen) or (network, plen), is relevant, so
\* the same entries in another order are; and when every pair shares
\* identity the difference is minor: the lists do not make the change
\* relevant.
C26_ListChangeRelevantIffIdentityDiffers ==
    track.phase = "replace"
        => /\ ~SameCounts(track.orig, track.src) => last.relevant
           /\ (/\ SameCounts(track.orig, track.src)
               /\ \/ ~AddressPairsShareIdentity(track.orig, track.src)
                  \/ ~RoutePairsShareIdentity(track.orig, track.src))
                  => last.relevant
           /\ (/\ SameCounts(track.orig, track.src)
               /\ AddressPairsShareIdentity(track.orig, track.src)
               /\ RoutePairsShareIdentity(track.orig, track.src)
               /\ OtherFieldsAgree(track.orig, track.src))
                  => ~last.relevant

\* C26, amended: the same, with (network, plen, gateway, metric) as what a
\* pair of routes must share for the difference to be minor: a pair of
\* routes that differs in gateway or metric is a relevant change.
C26_RouteChangeRelevantIfGatewayOrMetricDiffers ==
    track.phase = "replace"
        => /\ ~SameCounts(track.orig, track.src) => last.relevant
           /\ (/\ SameCounts(track.orig, track.src)
               /\ \/ ~AddressPairsShareIdentity(track.orig, track.src)
                  \/ ~RoutePairsShareIdentity(track.orig, track.src)
                  \/ ~RoutePairsShareGatewayAndMetric(track.orig, track.src))
                  => last.relevant
           /\ (/\ SameCounts(track.orig, track.src)
               /\ AddressPairsShareIdentity(track.orig, track.src)
               /\ RoutePairsShareIdentity(track.orig, track.src)
               /\ RoutePairsShareGatewayAndMetric(track.orig, track.src)
               /\ OtherFieldsAgree(track.orig, track.src))
                  => ~last.relevant

\* replace met the same two addresses in the other order, and reported a
\* relevant change.
C26_Witness ==
    /\ track.phase = "replace"
    /\ Len(track.orig.addresses) = 2
    /\ Len(track.src.addresses) = 2
    /\ track.orig.addresses[1] = track.src.addresses[2]
    /\ track.orig.addresses[2] = track.src.addresses[1]
    /\ track.orig.addresses[1] # track.orig.addresses[2]
    /\ last.relevant

(***************************************************************************)
(* Capture and the host routes to the gateway.                             *)
(***************************************************************************)
\* The routes of the link that capture keeps when it stores `gateway`: the
\* non-default routes, without the host routes (plen 32) to the gateway
\* that have no gateway of their own if the link has a default route.
RoutesKeptByCapture(routes, gateway) ==
    LET Kept(route) ==
            /\ route.plen # 0
            /\ ~(/\ DefaultRoutes(routes) # {}
                 /\ route.plen = 32
                 /\ route.network = gateway
                 /\ route.gateway = 0)
    IN  SelectSeq(routes, Kept)

\* C27: after the default routes are taken out, capture removes every host
\* route with plen 32, network equal to the captured gateway and a zero
\* gateway of its own, and no other non-default route; with no default
\* route on the link no host route is removed.
C27_CaptureDropsHostRoutesToGateway ==
    (last.op = "capture" /\ last.returned)
        => cfg[last.c].routes
               = RoutesKeptByCapture(last.arg.routes, cfg[last.c].gateway)

\* A capture that removed a host route to the gateway and kept a host route
\* to the same address that has a gateway of its own.
C27_Witness ==
    /\ last.op = "capture"
    /\ last.returned
    /\ cfg[last.c].gateway # 0
    /\ \E k \in 1..Len(last.arg.routes) :
           /\ last.arg.routes[k].plen = 32
           /\ last.arg.routes[k].network = cfg[last.c].gateway
           /\ last.arg.routes[k].gateway = 0
    /\ \E k \in 1..Len(cfg[last.c].routes) :
           /\ cfg[last.c].routes[k].plen = 32
           /\ cfg[last.c].routes[k].network = cfg[last.c].gateway
           /\ cfg[last.c].routes[k].gateway # 0

(***************************************************************************)
(* The setting created from an aggregate.                                  *)
(***************************************************************************)
\* The stored addresses without a lifetime, as the setting takes them.
PermanentAddresses(config) ==
    LET Permanent(a) == a.lifetime = NM_PLATFORM_LIFETIME_PERMANENT
        stored == SelectSeq(config.addresses, Permanent)
    IN  [k \in 1..Len(stored) |-> [address |-> stored[k].address,
                                   prefix  |-> stored[k].plen,
                                   label   |-> stored[k].label]]

\* C28: create_setting takes the method from the addresses alone, whatever
\* their order: "disabled" for a NULL config or one without addresses,
\* "auto" if and only if some address has a lifetime that is not permanent,
\* "manual" if and only if there is an address and every address is
\* permanent; only the permanent addresses are written to the setting.
C28_MethodFromAddressLifetimes ==
    last.op = "create_setting"
        => /\ last.created.method =
                  IF last.arg \/ Len(cfg[last.c].addresses) = 0
                  THEN "disabled"
                  ELSE IF \E k \in 1..Len(cfg[last.c].addresses) :
                              cfg[last.c].addresses[k].lifetime
                                  # NM_PLATFORM_LIFETIME_PERMANENT
                  THEN "auto"
                  ELSE "manual"
           /\ last.created.addresses =
                  IF last.arg THEN <<>> ELSE PermanentAddresses(cfg[last.c])

\* A setting created from an aggregate whose first address is permanent and
\* whose second has a lifetime: the method is "auto" and the first address
\* alone is written.
C28_Witness ==
    /\ last.op = "create_setting"
    /\ ~last.arg
    /\ Len(cfg[last.c].addresses) = 2
    /\ cfg[last.c].addresses[1].lifetime = NM_PLATFORM_LIFETIME_PERMANENT
    /\ cfg[last.c].addresses[2].lifetime # NM_PLATFORM_LIFETIME_PERMANENT
    /\ last.created.method = "auto"
    /\ Len(last.created.addresses) = 1

(***************************************************************************)
(* The MTU and its source.                                                 *)
(***************************************************************************)
\* Whether set_mtu (mtu, source) is to store the value in config.
MtuAccepted(config, mtu, source) ==
    \/ source > config.mtu_source
    \/ /\ source = config.mtu_source
       /\ (config.mtu = 0 \/ guint32_lt(mtu, config.mtu))

\* The source with which the call of a step hands an MTU to set_mtu: the
\* argument's for set_mtu, src's for merge and replace, UNKNOWN for
\* subtract.
MtuSourceOfCall(call, src) ==
    IF call.op = "set_mtu" THEN call.arg.source
    ELSE IF call.op = "subtract" THEN NM_IP_CONFIG_SOURCE_UNKNOWN
    ELSE src.mtu_source

\* C29: set_mtu (mtu, source) stores the value only if source is higher
\* than the stored mtu_source, or equal to it with the stored mtu 0 or
\* larger than the new one, and otherwise leaves mtu and mtu_source as they
\* are; over set_mtu, merge, subtract and replace the stored mtu_source
\* never goes down, and a call with a lower source never changes the mtu.
C29_MtuSourceNeverDecreases ==
    [][last'.op \in {"set_mtu", "merge", "subtract", "replace"}
           => (/\ cfg'[last'.c].mtu_source >= cfg[last'.c].mtu_source
               /\ MtuSourceOfCall(last', cfg[Other(last'.c)])
                      < cfg[last'.c].mtu_source
                      => cfg'[last'.c].mtu = cfg[last'.c].mtu
               /\ last'.op = "set_mtu"
                      => (/\ cfg'[last'.c].mtu =
                                 IF MtuAccepted(cfg[last'.c], last'.arg.mtu,
                                                last'.arg.source)
                                 THEN last'.arg.mtu ELSE cfg[last'.c].mtu
                          /\ cfg'[last'.c].mtu_source =
                                 IF last'.arg.source > cfg[last'.c].mtu_source
                                 THEN last'.arg.source
                                 ELSE cfg[last'.c].mtu_source))]_vars

\* A set_mtu with a lower source and another value was ignored.
C29_Witness ==
    /\ last.op = "set_mtu"
    /\ last.arg.source < cfg[last.c].mtu_source
    /\ last.arg.mtu # cfg[last.c].mtu
    /\ cfg[last.c].mtu # 0

(***************************************************************************)
(* The direct route to a host.                                             *)
(***************************************************************************)
\* The stored routes without a gateway whose network contains host.
DirectRoutesTo(config, host) ==
    {config.routes[k] :
        k \in {j \in 1..Len(config.routes) :
                  /\ config.routes[j].gateway = 0
                  /\ InSubnet(config.routes[j].network, host,
                              config.routes[j].plen)}}

\* C30: for a host other than 0, get_direct_route_for_host returns, among
\* the stored routes without a gateway whose network contains the host, one
\* of the longest prefix length and, among those, of the lowest metric, in
\* whatever order the routes are stored; it returns NULL if and only if no
\* such route is stored.
C30_DirectRouteIsLongestPrefixLowestMetric ==
    (last.op = "get_direct_route_for_host" /\ last.arg # 0)
        => /\ last.found.is_null <=> DirectRoutesTo(cfg[last.c], last.arg) = {}
           /\ ~last.found.is_null
                  => /\ last.found.route \in DirectRoutesTo(cfg[last.c],
                                                            last.arg)
                     /\ \A r \in DirectRoutesTo(cfg[last.c], last.arg) :
                            /\ r.plen <= last.found.route.plen
                            /\ r.plen = last.found.route.plen
                                   => ~guint32_lt(r.metric,
                                                  last.found.route.metric)

====
